---- MODULE Spec2Model ----
(***************************************************************************)
(* Model of the gemini-proxy request handlers.                             *)
(*                                                                         *)
(* Five of the repository's handler programs are modelled:                 *)
(*   "main"     src/main.ts                       (SDK relay, SSE)         *)
(*   "safe"     src/unnamed/part_000 lines 1-146  (SDK relay with the      *)
(*              stream safety check)                                       *)
(*   "v2"       src/unnamed/part_000 lines 148-276 (SDK relay that         *)
(*              extracts the model before the try block)                   *)
(*   "guarded"  src/unnamed/part_001 lines 1-108  (SDK relay with a        *)
(*              try/catch of its own around each upstream call)            *)
(*   "multikey" src/unnamed/part_001 lines 110-571 (gate key, key pool,    *)
(*              OpenAI-compatible route, generic fetch proxy)              *)
(*                                                                         *)
(* Text (paths, header values, SSE frames) is a sequence of one-character  *)
(* strings, so that includes / match / startsWith / substring / trim are   *)
(* computed on characters as the code computes them.                       *)
(***************************************************************************)
EXTENDS Integers, Sequences, FiniteSets, TLC

VARIABLES
    prog,       \* which handler program is deployed
    env,        \* process configuration read at startup (multikey only)
    pc,         \* position of the handler of the request in flight
    req,        \* the inbound request
    calls,      \* upstream calls issued for the request, in order
    resp,       \* the Response returned by the handler
    streamResult, \* how the awaited generateContentStream call settled
    geminiStatus, \* HTTP status of the upstream's answer to the call (0: none)
    geminiData, \* headers, body and JSON payload of the upstream's answer to fetch
    upstream,   \* chunks the upstream stream has produced so far
    ctrl,       \* state of the ReadableStream given to the client
    queue,      \* frames enqueued and not yet read by the client
    delivered,  \* frames the client has read
    enqueued,   \* every frame ever passed to controller.enqueue
    handlers    \* the handler invocations in progress side by side, each with
                \* its own request, position, calls, response and stream

vars == <<prog, env, pc, req, calls, resp, streamResult, geminiStatus, geminiData,
          upstream, ctrl, queue, delivered, enqueued, handlers>>

----------------------------------------------------------------------------
(* Text helpers: the JavaScript string methods the handlers use.           *)

Min(S) == CHOOSE x \in S : \A y \in S : x <= y

\* s has t at (1-based) position i
StartsWithAt(s, t, i) ==
    /\ i >= 1
    /\ i + Len(t) - 1 <= Len(s)
    /\ SubSeq(s, i, i + Len(t) - 1) = t

\* String.prototype.includes
Includes(s, t) == \E i \in 1..(Len(s) + 1) : StartsWithAt(s, t, i)

\* String.prototype.startsWith
StartsWith(s, t) == StartsWithAt(s, t, 1)

\* String.prototype.substring(n): the text from 0-based index n on
Substring(s, n) == SubSeq(s, n + 1, Len(s))

IsSpace(c) == c = " "

\* String.prototype.trim
Trim(s) ==
    LET keep == {i \in 1..Len(s) : ~IsSpace(s[i])}
    IN  IF keep = {} THEN <<>>
        ELSE SubSeq(s, Min(keep), CHOOSE j \in keep : \A k \in keep : k <= j)

LowerChar(c) ==
    CASE c = "B" -> "b"
      [] c = "E" -> "e"
      [] c = "A" -> "a"
      [] c = "R" -> "r"
      [] OTHER -> c

\* String.prototype.toLowerCase
ToLowerCase(s) == [i \in 1..Len(s) |-> LowerChar(s[i])]

----------------------------------------------------------------------------
(* Literals of the source.                                                 *)

\* "models/" of the regular expressions
MODELS_PREFIX == <<"m", "o", "d", "e", "l", "s", "/">>

\* ":streamGenerateContent"
STREAM_MARKER == <<":", "s", "t", "r", "e", "a", "m", "G", "e", "n", "e", "r", "a", "t", "e", "C", "o", "n", "t", "e", "n", "t">>

\* ":generateContent"
UNARY_MARKER == <<":", "g", "e", "n", "e", "r", "a", "t", "e", "C", "o", "n", "t", "e", "n", "t">>

\* "Bearer "
BEARER == <<"B", "e", "a", "r", "e", "r", " ">>

\* the argument of authHeader.substring(7)
BEARER_LEN == 7

\* "/openai/v1/chat/completions" and "/openai/v1/chat/completion"
OPENAI_PATH_A == <<"/", "o", "p", "e", "n", "a", "i", "/", "v", "1", "/", "c", "h", "a", "t", "/", "c", "o", "m", "p", "l", "e", "t", "i", "o", "n", "s">>

OPENAI_PATH_B == <<"/", "o", "p", "e", "n", "a", "i", "/", "v", "1", "/", "c", "h", "a", "t", "/", "c", "o", "m", "p", "l", "e", "t", "i", "o", "n">>

\* "data: " and the "\n\n" that ends a frame
DATA_PREFIX == <<"d", "a", "t", "a", ":", " ">>

FRAME_END == <<"\n", "\n">>

----------------------------------------------------------------------------
(* Inputs: the requests, configurations and upstream answers explored.     *)

MaxChunks == 2

Programs == {"main", "safe", "v2", "guarded", "multikey"}

SdkPrograms == {"main", "safe", "v2", "guarded"}

Methods == {"OPTIONS", "POST", "GET"}

\* a header or query value as Headers.get / searchParams.get returns it:
\* null (absent) or a string
Absent == [present |-> FALSE, v |-> <<>>]

H(s) == [present |-> TRUE, v |-> s]

\* JavaScript truthiness of a string-or-null
Truthy(h) == h.present /\ h.v # <<>>

GateKey == <<"g", "k">>

WrongKey == <<"w", "k">>

PathPrefixes == { <<"/">>, <<"/", "v", "1", "b", "e", "t", "a", "/">> }

ModelNames == { <<"f", "o", "o", "-", "b", "a", "r">>, <<"a", ":", "b">> }

Markers == {UNARY_MARKER, STREAM_MARKER}

\* <prefix>models/{m}<marker>
ShapedPaths ==
    {p \o MODELS_PREFIX \o m \o k : p \in PathPrefixes, m \in ModelNames, k \in Markers}

OddPaths ==
    { <<"/">>,
      <<"/", "v", "1", "b", "e", "t", "a", "/", "m", "o", "d", "e", "l", "s", "/", "m">>,
      <<"/", "v", "1", "/", "f", "o", "o", ":", "g", "e", "n", "e", "r", "a", "t", "e", "C", "o", "n", "t", "e", "n", "t">>,
      <<"/", "v", "1", "/", "f", "o", "o", ":", "s", "t", "r", "e", "a", "m", "G", "e", "n", "e", "r", "a", "t", "e", "C", "o", "n", "t", "e", "n", "t">>,
      <<"/", "v", "1", "b", "e", "t", "a", "/", "m", "o", "d", "e", "l", "s", "/", ":", "g", "e", "n", "e", "r", "a", "t", "e", "C", "o", "n", "t", "e", "n", "t">>,
      <<"/", "x", ":", "g", "e", "n", "e", "r", "a", "t", "e", "C", "o", "n", "t", "e", "n", "t", "/", "m", "o", "d", "e", "l", "s", "/", "y", ":", "z">>,
      <<"/", "v", "1", "b", "e", "t", "a", "/", "m", "o", "d", "e", "l", "s", "/", "m", ":", "g", "e", "n", "e", "r", "a", "t", "e", "C", "o", "n", "t", "e", "n", "t", ":", "s", "t", "r", "e", "a", "m", "G", "e", "n", "e", "r", "a", "t", "e", "C", "o", "n", "t", "e", "n", "t">>,
      <<"/", "v", "1", "b", "e", "t", "a", "/", "m", "o", "d", "e", "l", "s", "/", "m", ":", "c", "o", "u", "n", "t", "T", "o", "k", "e", "n", "s">> }

SdkPaths == ShapedPaths \cup OddPaths

ProxyPaths ==
    { OPENAI_PATH_A, OPENAI_PATH_B,
      <<"/", "v", "1", "b", "e", "t", "a", "/", "m", "o", "d", "e", "l", "s", "/", "m", ":", "g", "e", "n", "e", "r", "a", "t", "e", "C", "o", "n", "t", "e", "n", "t">> }

\* Authorization and x-goog-api-key values sent to the SDK programs
SdkAuthValues ==
    { Absent, H(<<>>), H(BEARER), H(BEARER \o GateKey),
      H(<<"b", "e", "a", "r", "e", "r", " ">> \o GateKey) }

SdkGoogValues == { Absent, H(<<>>), H(WrongKey) }

\* credential values sent to the multi-key program
AuthValues ==
    { Absent, H(BEARER), H(BEARER \o GateKey), H(BEARER \o WrongKey),
      H(<<"b", "e", "a", "r", "e", "r", " ">> \o GateKey), H(GateKey) }

KeyValues == { Absent, H(GateKey), H(WrongKey) }

\* a request body: whether there are body bytes, whether they parse as
\* JSON, and the two fields the handlers look at when they do (<<>> is an
\* absent field)
Bodies ==
    { [present |-> TRUE, parseable |-> FALSE, model |-> <<>>, messages |-> <<>>],
      [present |-> TRUE, parseable |-> TRUE, model |-> <<>>, messages |-> <<>>],
      [present |-> TRUE, parseable |-> TRUE, model |-> <<"g", "p", "t", "-", "4">>,
       messages |-> << [role |-> "user", content |-> "hi"] >>] }

\* the body of a request that has none (req.body is null), and the
\* body: undefined given to fetch
NoBody == [present |-> FALSE, parseable |-> FALSE, model |-> <<>>, messages |-> <<>>]

\* a GET request reaches the handler without a body, the other methods with one
BodyFits(r) == (r.method = "GET") <=> (r.body = NoBody)

\* url.searchParams.get(name): the value of the first parameter of that
\* name, null when there is none
searchParamsGet(query, name) ==
    LET hit == {i \in 1..Len(query) : query[i][1] = name}
    IN  IF hit = {} THEN Absent ELSE H(query[Min(hit)][2])

\* the header names and values used besides the credentials
JSON_TYPE == <<"j", "s", "o", "n">>

\* the query strings of the requests: none, or a key parameter
KeyQueries ==
    { <<>>, << <<"key", GateKey>> >>, << <<"key", WrongKey>> >> }

\* query strings with another parameter, and with two key parameters
MoreQueries ==
    { << <<"alt", <<"s", "s", "e">>>> >>,
      << <<"key", GateKey>>, <<"alt", <<"s", "s", "e">>>> >>,
      << <<"key", WrongKey>>, <<"alt", <<"s", "s", "e">>>>, <<"key", GateKey>> >> }

\* headers other than the credential headers: some of the forwarded
\* ones, one of them empty, and some that are not forwarded
MoreHeaders ==
    { { <<"Content-Type", JSON_TYPE>>, <<"Accept", <<>>>>, <<"Cookie", <<"s">>>> },
      { <<"User-Agent", <<"u">>>>, <<"x-goog-api-client", <<"c">>>>,
        <<"X-Forwarded-For", <<"1">>>> } }

\* the request with its query string, qkey being searchParams.get("key")
WithQuery(r, query) ==
    [r EXCEPT !.query = query, !.qkey = searchParamsGet(query, "key")]

SdkRequests ==
    { r \in [ method : Methods, path : SdkPaths, auth : SdkAuthValues,
              goog : SdkGoogValues, xapi : {Absent}, qkey : {Absent},
              headers : {{}}, query : {<<>>}, body : Bodies \cup {NoBody} ] :
        BodyFits(r) }

\* requests to the multi-key handler that vary the credentials
KeyRequests ==
    { WithQuery(r, q) :
        r \in { x \in [ method : Methods, path : ProxyPaths, auth : AuthValues,
                        goog : KeyValues, xapi : KeyValues, qkey : {Absent},
                        headers : {{}}, query : {<<>>}, body : Bodies \cup {NoBody} ] :
                  BodyFits(x) },
        q \in KeyQueries }

\* requests to the generic proxy that vary the other headers and the query
ForwardRequests ==
    { WithQuery(r, q) :
        r \in { x \in [ method : {"POST", "GET"}, path : ProxyPaths \ {OPENAI_PATH_A, OPENAI_PATH_B},
                        auth : {Absent, H(BEARER \o GateKey)}, goog : {Absent, H(GateKey)},
                        xapi : {Absent}, qkey : {Absent},
                        headers : MoreHeaders, query : {<<>>}, body : Bodies \cup {NoBody} ] :
                  BodyFits(x) },
        q \in MoreQueries }

ProxyRequests == KeyRequests \cup ForwardRequests

NoReq ==
    [ method |-> "", path |-> <<>>, auth |-> Absent, goog |-> Absent,
      xapi |-> Absent, qkey |-> Absent, headers |-> {}, query |-> <<>>,
      body |-> NoBody ]

\* chunks the upstream stream may yield
Chunks == { [text |-> "a"], [text |-> "b"] }

----------------------------------------------------------------------------
(* Responses.                                                              *)

\* A response body is described by its shape:
\*   "empty"          no body
\*   "envelope"       {error: {code, message, status}}
\*   "errorString"    {error: <string>, ...}
\*   "payload"        the upstream's JSON payload
\*   "sse"            the ReadableStream fed by the relay
\*   "bytes"          the upstream's body, passed through
\*   "chatCompletion" the OpenAI-shaped completion envelope
Body(shape, code, message, status) ==
    [shape |-> shape, code |-> code, message |-> message, status |-> status]

NoResp == [status |-> 0, headers |-> {}, body |-> Body("empty", 0, "", "")]

JsonCorsHeaders ==
    { <<"Content-Type", "application/json">>,
      <<"Access-Control-Allow-Origin", "*">> }

\* createJsonErrorResponse(message, statusCode = 500, statusText = "INTERNAL")
createJsonErrorResponse(message, statusCode, statusText) ==
    [ status |-> statusCode,
      headers |-> JsonCorsHeaders,
      body |-> Body("envelope", statusCode, message, statusText) ]

\* the createJsonErrorResponse of the programs that have no statusText
\* parameter: status is always "INTERNAL"
createJsonErrorResponseV2(message, statusCode) ==
    [ status |-> statusCode,
      headers |-> JsonCorsHeaders,
      body |-> Body("envelope", statusCode, message, "INTERNAL") ]

\* the error response of program p
ErrorResponse(p, message, statusCode, statusText) ==
    IF p = "v2"
    THEN createJsonErrorResponseV2(message, statusCode)
    ELSE createJsonErrorResponse(message, statusCode, statusText)

\* the answer of the SDK programs to OPTIONS
OptionsResponse ==
    [ status |-> 204,
      headers |->
        { <<"Access-Control-Allow-Origin", "*">>,
          <<"Access-Control-Allow-Methods", "POST, GET, OPTIONS">>,
          <<"Access-Control-Allow-Headers", "Content-Type, Authorization, x-goog-api-key">> },
      body |-> Body("empty", 0, "", "") ]

\* the answer of the multi-key handler to OPTIONS
ProxyOptionsResponse ==
    [ status |-> 204,
      headers |->
        { <<"Access-Control-Allow-Origin", "*">>,
          <<"Access-Control-Allow-Methods", "GET, POST, PUT, DELETE, OPTIONS">>,
          <<"Access-Control-Allow-Headers", "Content-Type, Authorization, x-api-key, x-goog-api-key">>,
          <<"Access-Control-Max-Age", "86400">> },
      body |-> Body("empty", 0, "", "") ]

\* new Response(JSON.stringify({error: ...}), {status, headers}) of the
\* multi-key handler; cors tells whether Access-Control-Allow-Origin is set
FlatErrorResponse(message, statusCode, cors) ==
    [ status |-> statusCode,
      headers |-> IF cors THEN JsonCorsHeaders
                  ELSE { <<"Content-Type", "application/json">> },
      body |-> Body("errorString", 0, message, "") ]

\* new Response(responseStream, {headers}) of the streaming branch
StreamResponse(p) ==
    [ status |-> 200,
      headers |->
        { <<"Content-Type", IF p \in {"v2", "guarded"} THEN "application/json"
                            ELSE "text/event-stream">>,
          <<"Access-Control-Allow-Origin", "*">>,
          <<"Cache-Control", "no-cache">>,
          <<"Connection", "keep-alive">> },
      body |-> Body("sse", 0, "", "") ]

\* new Response(JSON.stringify(responsePayload), {headers}) of the unary branch
UnaryResponse ==
    [ status |-> 200,
      headers |-> JsonCorsHeaders,
      body |-> Body("payload", 0, "", "") ]

----------------------------------------------------------------------------
(* Route classification and model extraction of the SDK programs.          *)

\* a classification that takes the unary marker for the streaming one
isStreamingOnUnaryMarker(pathname) == Includes(pathname, UNARY_MARKER)

\* pathname.includes(":streamGenerateContent")
isStreaming(pathname) == Includes(pathname, STREAM_MARKER)

\* a classification that takes any ":" for the unary marker
isUnaryAnyColon(pathname) == Includes(pathname, <<":">>)

\* pathname.includes(":generateContent")
isUnary(pathname) == Includes(pathname, UNARY_MARKER)

NoMatch == [matched |-> FALSE, group |-> <<>>]

\* positions of the ":" characters that can end the lazy group (.+?) of a
\* match starting at i: at least one character lies between "models/" and it
ColonsAfter(pathname, i) ==
    {c \in (i + Len(MODELS_PREFIX) + 1)..Len(pathname) : pathname[c] = ":"}

\* pathname.match(/models\/(.+?):/): the leftmost start, then the shortest group
modelMatch(pathname) ==
    LET starts == {i \in 1..Len(pathname) :
                     /\ StartsWithAt(pathname, MODELS_PREFIX, i)
                     /\ ColonsAfter(pathname, i) # {}}
    IN  IF starts = {} THEN NoMatch
        ELSE LET i == Min(starts)
                 c == Min(ColonsAfter(pathname, i))
             IN  [matched |-> TRUE,
                  group |-> SubSeq(pathname, i + Len(MODELS_PREFIX), c - 1)]

\* positions where an operation marker can end the lazy group of a match
\* of /models\/(.+?):(streamG|g)enerateContent/ starting at i
MarkersAfter(pathname, i) ==
    {c \in (i + Len(MODELS_PREFIX) + 1)..Len(pathname) :
        \/ StartsWithAt(pathname, STREAM_MARKER, c)
        \/ StartsWithAt(pathname, UNARY_MARKER, c)}

\* pathname.match(/models\/(.+?):(streamG|g)enerateContent/)
modelMatchV2(pathname) ==
    LET starts == {i \in 1..Len(pathname) :
                     /\ StartsWithAt(pathname, MODELS_PREFIX, i)
                     /\ MarkersAfter(pathname, i) # {}}
    IN  IF starts = {} THEN NoMatch
        ELSE LET i == Min(starts)
                 c == Min(MarkersAfter(pathname, i))
             IN  [matched |-> TRUE,
                  group |-> SubSeq(pathname, i + Len(MODELS_PREFIX), c - 1)]

\* the model extraction of program p
ModelOf(p, pathname) ==
    IF p = "v2" THEN modelMatchV2(pathname) ELSE modelMatch(pathname)

\* !modelMatch || !modelMatch[1]
NoModel(m) == ~m.matched \/ m.group = <<>>

\* await req.json() succeeds: the request has a body and it is JSON
JsonOk(r) == r.method = "POST" /\ r.body.parseable

\* the apiKey of the SDK programs: the text after "Bearer " when the
\* Authorization header starts with it, else x-goog-api-key || ""
apiKey(r) ==
    IF Truthy(r.auth) /\ StartsWith(r.auth.v, BEARER)
    THEN Substring(r.auth.v, BEARER_LEN)
    ELSE IF Truthy(r.goog) THEN r.goog.v ELSE <<>>

\* {model: modelName, ...geminiRequest}: a model field of the body, spread
\* after modelName, replaces it
SdkModel(modelName, body) == IF body.model # <<>> THEN body.model ELSE modelName

\* an upstream call: the SDK method or fetch, and what it is given
Call(api, model, key, r) ==
    [api |-> api, model |-> model, key |-> key, method |-> r.method,
     path |-> r.path, headers |-> {}, query |-> <<>>, body |-> r.body]

\* JSON.stringify(chunk)
JSONstringify(chunk) ==
    <<"{", "\"", "t", "e", "x", "t", "\"", ":", "\"", chunk.text, "\"", "}">>

\* a frame that ends with one newline only
sseSingleNewline(chunk) == DATA_PREFIX \o JSONstringify(chunk) \o <<"\n">>

\* `data: ${JSON.stringify(chunk)}\n\n`
sseFormattedChunk(chunk) == DATA_PREFIX \o JSONstringify(chunk) \o FRAME_END

----------------------------------------------------------------------------
(* The multi-key handler: configuration and inbound credential.            *)

\* the configurations explored: AUTH_KEY (Deno.env.get("key")) set or not,
\* and the pool GEMINI_API_KEYS parsed from Deno.env.get("apikey")
PoolKey1 == <<"p", "1">>

PoolKey2 == <<"p", "2">>

Envs ==
    { [AUTH_KEY |-> H(GateKey), GEMINI_API_KEYS |-> <<PoolKey1, PoolKey2>>],
      [AUTH_KEY |-> H(GateKey), GEMINI_API_KEYS |-> <<PoolKey1>>],
      [AUTH_KEY |-> H(GateKey), GEMINI_API_KEYS |-> <<>>],
      [AUTH_KEY |-> Absent, GEMINI_API_KEYS |-> <<PoolKey1, PoolKey2>>] }

NoEnv == [AUTH_KEY |-> Absent, GEMINI_API_KEYS |-> <<>>]

\* url.pathname === "/openai/v1/chat/completions" || ... "/openai/v1/chat/completion"
isOpenAIPath(pathname) == pathname = OPENAI_PATH_A \/ pathname = OPENAI_PATH_B

\* clientKey of the OpenAI-compatible route: the trimmed text after
\* "Bearer ", else the key query parameter || ""
openaiClientKey(r) ==
    IF r.auth.present /\ StartsWith(r.auth.v, BEARER)
    THEN Trim(Substring(r.auth.v, BEARER_LEN))
    ELSE IF Truthy(r.qkey) THEN r.qkey.v ELSE <<>>

\* clientKey after the x-goog-api-key step
keyFromGoog(r) == IF Truthy(r.goog) THEN Trim(r.goog.v) ELSE <<>>

\* clientKey after the Authorization step: the trimmed text after
\* "bearer " (any case), else the whole trimmed header
keyFromAuth(r) ==
    IF Truthy(r.auth)
    THEN IF StartsWith(ToLowerCase(r.auth.v), ToLowerCase(BEARER))
         THEN Trim(Substring(r.auth.v, BEARER_LEN))
         ELSE Trim(r.auth.v)
    ELSE <<>>

\* clientKey after the x-api-key step
keyFromXApi(r) == IF Truthy(r.xapi) THEN Trim(r.xapi.v) ELSE <<>>

\* clientKey after the URL parameter step
keyFromUrl(r) == IF Truthy(r.qkey) THEN Trim(r.qkey.v) ELSE <<>>

\* the first non-empty of a list of candidate keys, <<>> when there is none
FirstNonEmpty(cands) ==
    LET hit == {i \in 1..Len(cands) : cands[i] # <<>>}
    IN  IF hit = {} THEN <<>> ELSE cands[Min(hit)]

\* a clientKey that looks at the Authorization header first
clientKeyAuthFirst(r) ==
    FirstNonEmpty(<<keyFromAuth(r), keyFromGoog(r), keyFromXApi(r), keyFromUrl(r)>>)

\* clientKey of the generic proxy: x-goog-api-key, then Authorization, then
\* x-api-key, then the key query parameter; each step runs only while
\* clientKey is still empty
clientKey(r) ==
    FirstNonEmpty(<<keyFromGoog(r), keyFromAuth(r), keyFromXApi(r), keyFromUrl(r)>>)

\* clientKey !== AUTH_KEY is false: the key is the configured gate value
isGateKey(k, e) == e.AUTH_KEY.present /\ k = e.AUTH_KEY.v

\* !AUTH_KEY || GEMINI_API_KEYS.length === 0
notConfigured(e) == ~Truthy(e.AUTH_KEY) \/ Len(e.GEMINI_API_KEYS) = 0

\* a selection that leaves out the keys an upstream answer of 429 was seen on
getRandomApiKeySparingLimited(e) ==
    LET limited == {handlers[j].calls[1].key :
                      j \in {x \in DOMAIN handlers : handlers[x].geminiStatus = 429}}
    IN  {e.GEMINI_API_KEYS[i] : i \in 1..Len(e.GEMINI_API_KEYS)} \ limited

\* a selection that always takes the first key of the pool
getFirstApiKey(e) ==
    IF Len(e.GEMINI_API_KEYS) = 0 THEN {} ELSE {e.GEMINI_API_KEYS[1]}

\* the keys getRandomApiKey() can return: GEMINI_API_KEYS[randomIndex] for a
\* randomIndex of 0 .. length - 1 (it throws when the pool is empty)
getRandomApiKey(e) == {e.GEMINI_API_KEYS[i] : i \in 1..Len(e.GEMINI_API_KEYS)}

\* every header of the request as req.headers holds them
InboundHeaders(r) ==
    r.headers
        \cup (IF r.auth.present THEN { <<"Authorization", r.auth.v>> } ELSE {})
        \cup (IF r.goog.present THEN { <<"x-goog-api-key", r.goog.v>> } ELSE {})
        \cup (IF r.xapi.present THEN { <<"x-api-key", r.xapi.v>> } ELSE {})

headersToForward ==
    { "Content-Type", "Accept", "User-Agent", "Accept-Language", "Accept-Encoding",
      "x-goog-api-client" }

\* a proxy that forwards every inbound header
forwardEveryHeader(r) == InboundHeaders(r)

\* forwardHeaders: for each name of headersToForward, the inbound value when
\* req.headers.get(name) is truthy
forwardHeaders(r) ==
    {h \in InboundHeaders(r) : h[1] \in headersToForward /\ h[2] # <<>>}

\* url.searchParams.delete(name)
searchParamsDelete(query, name) ==
    SelectSeq(query, LAMBDA kv : kv[1] # name)

\* url.searchParams.set(name, value): the first parameter of that name gets
\* the value and the others are removed; without one the parameter is appended
searchParamsSet(query, name, value) ==
    LET hit == {i \in 1..Len(query) : query[i][1] = name}
    IN  IF hit = {} THEN Append(query, <<name, value>>)
        ELSE LET first == Min(hit)
                 kept == {i \in 1..Len(query) : i = first \/ query[i][1] # name}
                 F[i \in 0..Len(query)] ==
                     IF i = 0 THEN <<>>
                     ELSE IF i \in kept
                     THEN Append(F[i - 1], IF i = first THEN <<name, value>> ELSE query[i])
                     ELSE F[i - 1]
             IN  F[Len(query)]

\* a target query that keeps what the client sent and adds the pool key
targetQueryKeepingKey(query, selectedApiKey) ==
    Append(query, <<"key", selectedApiKey>>)

\* url.search of targetUrl: searchParams.delete("key"), then
\* searchParams.set("key", selectedApiKey)
targetQuery(query, selectedApiKey) ==
    searchParamsSet(searchParamsDelete(query, "key"), "key", selectedApiKey)

\* body of the forwarded request: null for GET and HEAD, else the bytes of
\* await req.arrayBuffer()
forwardBody(r) == IF r.method \in {"GET", "HEAD"} THEN NoBody ELSE r.body

\* fetch(targetUrl, {method: req.method, headers: forwardHeaders, body})
ProxyCall(r, selectedApiKey) ==
    [ api |-> "fetch", model |-> <<>>, key |-> selectedApiKey, method |-> r.method,
      path |-> r.path, headers |-> forwardHeaders(r),
      query |-> targetQuery(r.query, selectedApiKey), body |-> forwardBody(r) ]

\* the statuses and kinds of answer the upstream may give to fetch
UpstreamStatuses == {200, 429, 500}

\* the statuses fetch may resolve with: those, and one that has no body
FetchStatuses == UpstreamStatuses \cup {204}

\* geminiResponse.ok
isOk(status) == status >= 200 /\ status <= 299

\* the statuses a Response must have no body with
nullBodyStatus(status) == status \in {101, 103, 204, 205, 304}

APPLICATION_JSON == <<"a", "p", "p", "l", "i", "c", "a", "t", "i", "o", "n", "/", "j", "s", "o", "n">>

EVENT_STREAM == <<"t", "e", "x", "t", "/", "e", "v", "e", "n", "t", "-", "s", "t", "r", "e", "a", "m">>

\* "stream" of contentType?.includes("stream"), "sse" of alt === "sse"
STREAM_WORD == <<"s", "t", "r", "e", "a", "m">>

SSE == <<"s", "s", "e">>

\* the text that stands in for a missing candidate text
NO_RESPONSE == <<"N", "o", " ", "r", "e", "s", "p", "o", "n", "s", "e", " ", "g", "e", "n", "e", "r", "a", "t", "e", "d", ".">>

\* geminiData of an answer that is not JSON (geminiResponse.json() throws)
NoJson == [parseable |-> FALSE, candidates |-> <<>>]

\* what fetch resolved to besides the status: the response headers, the body
\* bytes, whether the body can be read to its end, and the body as JSON
NoAnswer == [headers |-> {}, bytes |-> <<>>, complete |-> TRUE, json |-> NoJson]

\* answers to the generic proxy: a JSON document, an event stream, a JSON
\* document whose transfer breaks off, and an answer without body
JsonAnswer ==
    [ headers |-> { <<"Content-Type", APPLICATION_JSON>>, <<"Content-Length", <<"2">>>>,
                    <<"Server", <<"s">>>>, <<"Content-Encoding", <<>>>> },
      bytes |-> <<"{", "}">>, complete |-> TRUE, json |-> NoJson ]

StreamAnswer ==
    [ headers |-> { <<"Content-Type", EVENT_STREAM>>, <<"Transfer-Encoding", <<"c">>>>,
                    <<"Set-Cookie", <<"x">>>> },
      bytes |-> <<"d", "1", "d", "2">>, complete |-> TRUE, json |-> NoJson ]

BrokenAnswer == [JsonAnswer EXCEPT !.complete = FALSE]

\* the answers the upstream can give the generic proxy with a status
ProxyAnswers(status) ==
    IF status = 0 \/ nullBodyStatus(status) THEN {NoAnswer}
    ELSE IF status = 200 THEN {JsonAnswer, StreamAnswer, BrokenAnswer}
    ELSE {JsonAnswer}

\* JSON payloads of a successful generateContent answer
GeminiPayloads ==
    { [parseable |-> TRUE,
       candidates |-> << [parts |-> << <<"o", "k">> >>, finishReason |-> "MAX_TOKENS"] >>],
      [parseable |-> TRUE,
       candidates |-> << [parts |-> << <<"a">>, <<"b">> >>, finishReason |-> ""],
                         [parts |-> << <<"c">> >>, finishReason |-> "STOP"] >>],
      [parseable |-> TRUE,
       candidates |-> << [parts |-> << <<>> >>, finishReason |-> "STOP"] >>],
      [parseable |-> TRUE, candidates |-> <<>>],
      NoJson }

\* the answers the upstream can give the OpenAI-compatible route with a status
OpenAIAnswers(status) ==
    IF status = 200 THEN {[NoAnswer EXCEPT !.json = j] : j \in GeminiPayloads}
    ELSE {NoAnswer}

\* geminiResponse.headers.get(name)
headersGet(headers, name) ==
    IF \E h \in headers : h[1] = name
    THEN H((CHOOSE h \in headers : h[1] = name)[2])
    ELSE Absent

headersToReturn ==
    { "Content-Type", "Content-Length", "Content-Encoding", "Transfer-Encoding" }

\* responseHeaders: the upstream's value of each name of headersToReturn
\* that has a truthy one, then the CORS and debug headers the proxy sets
responseHeaders(answer) ==
    {h \in answer.headers : h[1] \in headersToReturn /\ h[2] # <<>>}
        \cup { <<"Access-Control-Allow-Origin", "*">>,
               <<"X-Request-ID", "requestId">>,
               <<"X-API-Key-Used", "keyIndex/length">> }

\* contentType?.includes("stream") || url.searchParams.get("alt") === "sse"
isStreamedRelay(r, answer) ==
    \/ /\ Truthy(headersGet(answer.headers, "Content-Type"))
       /\ Includes(headersGet(answer.headers, "Content-Type").v, STREAM_WORD)
    \/ searchParamsGet(r.query, "alt") = H(SSE)

\* new Response(geminiResponse.body | responseBody, {status, headers}) of the
\* generic proxy
RelayResponse(status, answer) ==
    [ status |-> status,
      headers |-> responseHeaders(answer),
      body |-> [shape |-> "bytes", code |-> 0, message |-> "", status |-> "",
                bytes |-> answer.bytes, complete |-> answer.complete] ]

\* the OpenAI route's answer to an upstream error
OpenAIUpstreamError(status) ==
    [ status |-> status,
      headers |-> { <<"Content-Type", "application/json">> },
      body |-> Body("errorString", 0, "Gemini API error", "") ]

\* the model names of the OPENAI_TO_GEMINI table
GPT35 == <<"g", "p", "t", "-", "3", ".", "5", "-", "t", "u", "r", "b", "o">>

GPT4 == <<"g", "p", "t", "-", "4">>

GEMINI_PRO == <<"g", "e", "m", "i", "n", "i", "-", "p", "r", "o">>

GEMINI_15_PRO == <<"g", "e", "m", "i", "n", "i", "-", "1", ".", "5", "-", "p", "r", "o">>

GEMINI_15_FLASH == <<"g", "e", "m", "i", "n", "i", "-", "1", ".", "5", "-", "f", "l", "a", "s", "h">>

\* "constructor" and "toString", two of the property names every object
\* literal inherits from Object.prototype
CONSTRUCTOR == <<"c", "o", "n", "s", "t", "r", "u", "c", "t", "o", "r">>

TO_STRING == <<"t", "o", "S", "t", "r", "i", "n", "g">>

\* what a template literal makes of the inherited members: the source text
\* of the native functions Object and toString
OBJECT_FUNCTION_TEXT == <<"f", "u", "n", "c", "t", "i", "o", "n", " ", "O", "b", "j", "e", "c", "t", "(", ")", " ", "{", " ", "[", "n", "a", "t", "i", "v", "e", " ", "c", "o", "d", "e", "]", " ", "}">>

TO_STRING_FUNCTION_TEXT == <<"f", "u", "n", "c", "t", "i", "o", "n", " ", "t", "o", "S", "t", "r", "i", "n", "g", "(", ")", " ", "{", " ", "[", "n", "a", "t", "i", "v", "e", " ", "c", "o", "d", "e", "]", " ", "}">>

\* OPENAI_TO_GEMINI[name]: the entry of the object literal, else the member
\* the literal inherits under that name, else undefined (<<>>)
OPENAI_TO_GEMINI(name) ==
    CASE name = GPT35 -> GEMINI_PRO
      [] name = GPT4 -> GEMINI_15_PRO
      [] name = GEMINI_PRO -> GEMINI_PRO
      [] name = GEMINI_15_PRO -> GEMINI_15_PRO
      [] name = GEMINI_15_FLASH -> GEMINI_15_FLASH
      [] name = CONSTRUCTOR -> OBJECT_FUNCTION_TEXT
      [] name = TO_STRING -> TO_STRING_FUNCTION_TEXT
      [] OTHER -> <<>>

\* body.model || "gpt-3.5-turbo"
openaiModel(body) == IF body.model # <<>> THEN body.model ELSE GPT35

\* OPENAI_TO_GEMINI[openaiModel] || "gemini-pro", as `${geminiModel}` puts
\* it into geminiUrl
geminiModel(body) ==
    IF OPENAI_TO_GEMINI(openaiModel(body)) # <<>>
    THEN OPENAI_TO_GEMINI(openaiModel(body))
    ELSE GEMINI_PRO

\* geminiData.candidates?.[0]: the first candidate, undefined (<<>>) when
\* there is none
firstCandidate(json) ==
    IF Len(json.candidates) = 0 THEN <<>> ELSE << json.candidates[1] >>

\* candidate?.content?.parts?.[0]?.text, undefined and "" both as <<>>
candidateText(candidate) ==
    IF candidate = <<>> \/ Len(candidate[1].parts) = 0 THEN <<>>
    ELSE candidate[1].parts[1]

\* content taken from the last part instead of the first
contentOfLastPart(json) ==
    IF firstCandidate(json) = <<>> \/ Len(firstCandidate(json)[1].parts) = 0
       \/ firstCandidate(json)[1].parts[Len(firstCandidate(json)[1].parts)] = <<>>
    THEN NO_RESPONSE
    ELSE firstCandidate(json)[1].parts[Len(firstCandidate(json)[1].parts)]

\* content = candidate?.content?.parts?.[0]?.text || "No response generated."
contentOf(json) ==
    IF candidateText(firstCandidate(json)) # <<>>
    THEN candidateText(firstCandidate(json))
    ELSE NO_RESPONSE

\* finishReason = candidate?.finishReason || "stop"
finishReasonOf(json) ==
    IF firstCandidate(json) = <<>> \/ firstCandidate(json)[1].finishReason = ""
    THEN "stop"
    ELSE firstCandidate(json)[1].finishReason

\* buildOpenAIResponse(content, model, finishReason, id), without the id and
\* the creation time
buildOpenAIResponse(content, model, finishReason) ==
    [ shape |-> "chatCompletion", code |-> 0, message |-> "", status |-> "",
      object |-> "chat.completion",
      model |-> model,
      usage |-> [prompt_tokens |-> 0, completion_tokens |-> Len(content),
                 total_tokens |-> Len(content)],
      choices |-> << [index |-> 0,
                      message |-> [role |-> "assistant", content |-> content],
                      finish_reason |-> finishReason] >> ]

\* new Response(JSON.stringify(openAIResponse), {status: 200, ...})
OpenAIResponse(r, json) ==
    [ status |-> 200,
      headers |-> JsonCorsHeaders,
      body |-> buildOpenAIResponse(contentOf(json), openaiModel(r.body),
                                   finishReasonOf(json)) ]

\* convertMessagesToGemini(messages)
convertMessagesToGemini(messages) ==
    [i \in 1..Len(messages) |->
        [role |-> IF messages[i].role = "user" THEN "user" ELSE "model",
         parts |-> << [text |-> messages[i].content] >>]]

\* fetch(geminiUrl, {method: "POST", headers, body: JSON.stringify(geminiRequestBody)})
OpenAICall(r, selectedGeminiKey) ==
    [ api |-> "fetch", model |-> geminiModel(r.body), key |-> selectedGeminiKey,
      method |-> "POST",
      path |-> <<"/", "v", "1", "/">> \o MODELS_PREFIX \o geminiModel(r.body) \o UNARY_MARKER,
      headers |-> { <<"Content-Type", JSON_TYPE>> },
      query |-> << <<"key", selectedGeminiKey>> >>,
      body |-> [contents |-> convertMessagesToGemini(r.body.messages)] ]

\* a gate check that only asks for some key
openaiRejectedIfEmpty(r, e) == openaiClientKey(r) = <<>>

\* the gate check of the OpenAI-compatible route: !clientKey || clientKey !== AUTH_KEY
openaiRejected(r, e) ==
    openaiClientKey(r) = <<>> \/ ~isGateKey(openaiClientKey(r), e)

\* the two gate checks of the generic proxy: !clientKey, clientKey !== AUTH_KEY
proxyRejected(r, e) ==
    clientKey(r) = <<>> \/ ~isGateKey(clientKey(r), e)

----------------------------------------------------------------------------
(* The handlers, one action per stretch of code between two awaits.        *)

Init ==
    /\ prog \in Programs
    /\ env \in (IF prog = "multikey" THEN Envs ELSE {NoEnv})
    /\ pc = "idle"
    /\ req = NoReq
    /\ calls = <<>>
    /\ resp = NoResp
    /\ streamResult = "pending"
    /\ geminiStatus = 0
    /\ geminiData = NoAnswer
    /\ upstream = <<>>
    /\ ctrl = "none"
    /\ queue = <<>>
    /\ delivered = <<>>
    /\ enqueued = <<>>
    /\ handlers = <<>>

\* return a Response: the handler ends
Reply(r) == resp' = r /\ pc' = "done"

streamVars == <<streamResult, upstream, ctrl, queue, delivered, enqueued>>

\* a handler that classifies the route before it looks for OPTIONS
SdkEarlyOptionsLate(p, r) ==
    IF p # "v2" /\ (r.method # "POST" \/ (~isStreaming(r.path) /\ ~isUnary(r.path)))
    THEN ErrorResponse(p, "Endpoint not found.", 404, "NOT_FOUND")
    ELSE IF r.method = "OPTIONS" THEN OptionsResponse
    ELSE NoResp

\* what an SDK program does with request r before its first await:
\* the response it returns, or NoResp when it goes on to await req.json()
SdkEarly(p, r) ==
    IF r.method = "OPTIONS" THEN OptionsResponse
    ELSE IF p # "v2" /\ (r.method # "POST" \/ (~isStreaming(r.path) /\ ~isUnary(r.path)))
    THEN ErrorResponse(p, "Endpoint not found.", 404, "NOT_FOUND")
    ELSE IF NoModel(ModelOf(p, r.path))
    THEN ErrorResponse(p, "Could not extract model name from path", 400, "INVALID_ARGUMENT")
    ELSE NoResp

\* serve(async (req) => ...) of the SDK programs, up to await req.json()
SdkReceive(r) ==
    /\ pc = "idle"
    /\ prog \in SdkPrograms
    /\ req' = r
    /\ IF SdkEarly(prog, r) # NoResp
       THEN Reply(SdkEarly(prog, r))
       ELSE pc' = "json" /\ resp' = resp
    /\ UNCHANGED <<handlers, geminiData, prog, env, geminiStatus, calls, streamVars>>

\* what an SDK program does once req.json() has settled, up to the
\* upstream call: the response it returns, or NoResp when it calls upstream
SdkAfterJson(p, r) ==
    IF ~JsonOk(r)
    THEN ErrorResponse(p, "Unexpected token", 500, "INTERNAL")
    ELSE IF apiKey(r) = <<>>
    THEN ErrorResponse(p, "API key is missing from headers.", 401, "UNAUTHENTICATED")
    ELSE IF ~isStreaming(r.path) /\ ~isUnary(r.path)
    THEN ErrorResponse(p, "Endpoint not found.", 404, "NOT_FOUND")
    ELSE NoResp

\* from req.json() to ai.models.generateContentStream / generateContent
SdkJsonDone ==
    /\ pc = "json"
    /\ IF SdkAfterJson(prog, req) # NoResp
       THEN Reply(SdkAfterJson(prog, req)) /\ calls' = calls
       ELSE LET m == SdkModel(ModelOf(prog, req.path).group, req.body)
            IN  IF isStreaming(req.path)
                THEN /\ calls' = Append(calls, Call("generateContentStream", m, apiKey(req), req))
                     /\ pc' = "stream_call"
                     /\ resp' = resp
                ELSE /\ calls' = Append(calls, Call("generateContent", m, apiKey(req), req))
                     /\ pc' = "unary_call"
                     /\ resp' = resp
    /\ UNCHANGED <<handlers, geminiData, prog, env, geminiStatus, req, streamVars>>

\* the ways the awaited generateContentStream call can settle: it throws, it
\* resolves to a result without a usable stream, or to one with a stream
StreamOutcomes == {"throw", "nostream", "stream"}

\* the response to an upstream call that throws: the program with a
\* try/catch around the call answers 502 from it, in the others the error
\* reaches the outer catch, which answers 500
CallFailedResponse(p) ==
    IF p = "guarded"
    THEN createJsonErrorResponse("Failed to call Google API", 502, "BAD_GATEWAY")
    ELSE ErrorResponse(p, "upstream call failed", 500, "INTERNAL")

\* if (!streamResult || !streamResult.stream): only the program with the
\* safety check has it
hasSafetyCheck(p) == p = "safe"

\* the response of the streaming branch to the settled generateContentStream
\* call
StreamOutcomeResponse(p, outcome) ==
    IF outcome = "throw" THEN CallFailedResponse(p)
    ELSE IF outcome = "nostream" /\ hasSafetyCheck(p)
    THEN createJsonErrorResponse("Failed to get a valid stream from Google API.",
                                 502, "BAD_GATEWAY")
    ELSE StreamResponse(p)

\* the ReadableStream after that: none when an error response is returned,
\* errored when start() has no stream to iterate, open otherwise
StreamOutcomeCtrl(p, outcome) ==
    IF outcome = "throw" \/ (outcome = "nostream" /\ hasSafetyCheck(p)) THEN "none"
    ELSE IF outcome = "nostream" THEN "errored"
    ELSE "open"

\* from the settled generateContentStream call to the returned Response; with
\* no stream to iterate, start() fails at once and the ReadableStream is errored
SdkStreamCallDone(outcome) ==
    /\ pc = "stream_call"
    /\ streamResult' = outcome
    /\ resp' = StreamOutcomeResponse(prog, outcome)
    /\ ctrl' = StreamOutcomeCtrl(prog, outcome)
    /\ pc' = IF outcome = "stream" THEN "relay" ELSE "done"
    /\ UNCHANGED <<handlers, geminiData, prog, env, geminiStatus, req, calls, upstream, queue, delivered, enqueued>>

\* one turn of for await (const chunk of streamResult.stream): the upstream
\* yields a chunk and controller.enqueue is given its frame
RelayChunk(chunk) ==
    /\ pc = "relay"
    /\ Len(upstream) < MaxChunks
    /\ upstream' = Append(upstream, chunk)
    /\ queue' = Append(queue, sseFormattedChunk(chunk))
    /\ enqueued' = Append(enqueued, sseFormattedChunk(chunk))
    /\ UNCHANGED <<streamResult, handlers, geminiData, prog, env, geminiStatus, pc, req, calls, resp, ctrl, delivered>>

\* the upstream ends its stream: the loop exits and controller.close() runs
RelayEnd ==
    /\ pc = "relay"
    /\ ctrl' = "closed"
    /\ pc' = "done"
    /\ UNCHANGED <<streamResult, handlers, geminiData, prog, env, geminiStatus, req, calls, resp, upstream, queue, delivered, enqueued>>

\* the upstream iteration throws: controller.error(e), or start() rejects; an
\* errored ReadableStream drops the frames still queued
RelayFail ==
    /\ pc = "relay"
    /\ ctrl' = "errored"
    /\ queue' = <<>>
    /\ pc' = "done"
    /\ UNCHANGED <<streamResult, handlers, geminiData, prog, env, geminiStatus, req, calls, resp, upstream, delivered, enqueued>>

\* the client reads the next frame of the response body
ClientRead ==
    /\ ctrl \in {"open", "closed"}
    /\ queue # <<>>
    /\ delivered' = Append(delivered, Head(queue))
    /\ queue' = Tail(queue)
    /\ UNCHANGED <<streamResult, handlers, geminiData, prog, env, geminiStatus, pc, req, calls, resp, upstream, ctrl, enqueued>>

\* the response of the unary branch to the settled generateContent call
UnaryOutcomeResponse(p, outcome) ==
    IF isOk(outcome) THEN UnaryResponse ELSE CallFailedResponse(p)

\* from the settled generateContent call to the returned Response: the call
\* resolves when the upstream answers 2xx, and throws when the upstream
\* answers another status or does not answer
SdkUnaryCallDone(outcome) ==
    /\ pc = "unary_call"
    /\ geminiStatus' = outcome
    /\ Reply(UnaryOutcomeResponse(prog, outcome))
    /\ UNCHANGED <<handlers, geminiData, prog, env, req, calls, streamVars>>

\* a handler whose OpenAI-compatible route checks the gate credential before
\* the method
ProxyEarlyGateFirst(r, e) ==
    IF r.method = "OPTIONS" THEN ProxyOptionsResponse
    ELSE IF isOpenAIPath(r.path)
    THEN IF openaiRejected(r, e)
         THEN FlatErrorResponse("Unauthorized: Invalid API key", 401, FALSE)
         ELSE IF r.method # "POST"
         THEN FlatErrorResponse("Method not allowed", 405, FALSE)
         ELSE NoResp
    ELSE IF notConfigured(e)
    THEN FlatErrorResponse("server configuration error", 500, TRUE)
    ELSE IF proxyRejected(r, e)
    THEN FlatErrorResponse("authentication failed", 401, TRUE)
    ELSE NoResp

\* what the multi-key handler does with request r before it selects a pool
\* key or awaits the body: the response it returns, or NoResp when it goes on
ProxyEarly(r, e) ==
    IF r.method = "OPTIONS" THEN ProxyOptionsResponse
    ELSE IF isOpenAIPath(r.path)
    THEN IF r.method # "POST"
         THEN FlatErrorResponse("Method not allowed", 405, FALSE)
         ELSE IF openaiRejected(r, e)
         THEN FlatErrorResponse("Unauthorized: Invalid API key", 401, FALSE)
         ELSE NoResp
    ELSE IF notConfigured(e)
    THEN FlatErrorResponse("server configuration error", 500, TRUE)
    ELSE IF proxyRejected(r, e)
    THEN FlatErrorResponse("authentication failed", 401, TRUE)
    ELSE NoResp

\* handler(req) of the multi-key program, up to await req.json() on the
\* OpenAI-compatible route and up to fetch(targetUrl, ...) on the generic
\* proxy, whose query carries the selected pool key in place of any key
\* parameter of the client
ProxyReceive(r) ==
    /\ pc = "idle"
    /\ prog = "multikey"
    /\ req' = r
    /\ IF ProxyEarly(r, env) # NoResp
       THEN Reply(ProxyEarly(r, env)) /\ calls' = calls
       ELSE IF isOpenAIPath(r.path)
       THEN pc' = "oai_json" /\ resp' = resp /\ calls' = calls
       ELSE \E selectedApiKey \in getRandomApiKey(env) :
                /\ calls' = Append(calls, ProxyCall(r, selectedApiKey))
                /\ pc' = "proxy_fetch"
                /\ resp' = resp
    /\ UNCHANGED <<handlers, geminiData, prog, env, geminiStatus, streamVars>>

\* the ways an awaited fetch can settle: it throws ("throw"), or the upstream
\* answers with a status
FetchOutcomes == {0} \cup UpstreamStatuses

\* the ways the fetch of the multi-key handler can settle
ProxyFetchOutcomes == {0} \cup FetchStatuses

\* the response of the generic proxy to the settled fetch: the upstream's
\* answer is relayed, as a stream or after its body was read; the catch
\* block answers 500 when fetch throws, when reading the body fails and when
\* the Response constructor refuses a body for the status
ProxyOutcomeResponse(r, outcome, answer) ==
    IF outcome = 0
    THEN FlatErrorResponse("internal server error", 500, TRUE)
    ELSE IF isStreamedRelay(r, answer)
    THEN RelayResponse(outcome, answer)
    ELSE IF ~answer.complete \/ nullBodyStatus(outcome)
    THEN FlatErrorResponse("internal server error", 500, TRUE)
    ELSE RelayResponse(outcome, answer)

\* from the settled fetch of the generic proxy to the returned Response
ProxyFetchDone(outcome, answer) ==
    /\ pc = "proxy_fetch"
    /\ geminiStatus' = outcome
    /\ geminiData' = answer
    /\ Reply(ProxyOutcomeResponse(req, outcome, answer))
    /\ UNCHANGED <<handlers, prog, env, req, calls, streamVars>>

\* what the OpenAI-compatible route does once req.json() has settled, up to
\* the key selection: the response it returns, or NoResp when it goes on
OpenAIAfterJson(r, e) ==
    IF ~r.body.parseable
    THEN FlatErrorResponse("Internal error", 500, FALSE)
    ELSE IF Len(r.body.messages) = 0
    THEN FlatErrorResponse("No messages provided", 400, FALSE)
    ELSE IF getRandomApiKey(e) = {}
    THEN FlatErrorResponse("Internal error", 500, FALSE)
    ELSE NoResp

\* from req.json() to fetch(geminiUrl, ...) on the OpenAI-compatible route
OpenAIJsonDone ==
    /\ pc = "oai_json"
    /\ IF OpenAIAfterJson(req, env) # NoResp
       THEN Reply(OpenAIAfterJson(req, env)) /\ calls' = calls
       ELSE \E selectedGeminiKey \in getRandomApiKey(env) :
                /\ calls' = Append(calls, OpenAICall(req, selectedGeminiKey))
                /\ pc' = "oai_fetch"
                /\ resp' = resp
    /\ UNCHANGED <<handlers, geminiData, prog, env, geminiStatus, req, streamVars>>

\* the response of the OpenAI-compatible route to the settled fetch
OpenAIOutcomeResponse(r, outcome, answer) ==
    IF outcome = 0
    THEN FlatErrorResponse("Internal error", 500, FALSE)
    ELSE IF ~isOk(outcome)
    THEN OpenAIUpstreamError(outcome)
    ELSE IF ~answer.json.parseable
    THEN FlatErrorResponse("Internal error", 500, FALSE)
    ELSE OpenAIResponse(r, answer.json)

\* from the settled fetch of the OpenAI-compatible route to the returned Response
OpenAIFetchDone(outcome, answer) ==
    /\ pc = "oai_fetch"
    /\ geminiStatus' = outcome
    /\ geminiData' = answer
    /\ Reply(OpenAIOutcomeResponse(req, outcome, answer))
    /\ UNCHANGED <<handlers, prog, env, req, calls, streamVars>>

Next ==
    \/ \E r \in SdkRequests : SdkReceive(r)
    \/ SdkJsonDone
    \/ \E outcome \in StreamOutcomes : SdkStreamCallDone(outcome)
    \/ \E chunk \in Chunks : RelayChunk(chunk)
    \/ RelayEnd
    \/ RelayFail
    \/ ClientRead
    \/ \E outcome \in FetchOutcomes : SdkUnaryCallDone(outcome)
    \/ \E r \in ProxyRequests : ProxyReceive(r)
    \/ \E outcome \in ProxyFetchOutcomes :
           \E answer \in ProxyAnswers(outcome) : ProxyFetchDone(outcome, answer)
    \/ OpenAIJsonDone
    \/ \E outcome \in ProxyFetchOutcomes :
           \E answer \in OpenAIAnswers(outcome) : OpenAIFetchDone(outcome, answer)

Spec == Init /\ [][Next]_vars

----------------------------------------------------------------------------
(* The OpenAI-compatible route over a range of model names and messages.   *)

MaxMessages == 2

\* body.model: absent, names of the table, a name no object has, and names
\* every object inherits
MapModelNames ==
    { <<>>, GPT4, GPT35, GEMINI_15_FLASH, <<"f", "o", "o">>, CONSTRUCTOR, TO_STRING }

MapMessages ==
    { [role |-> "user", content |-> "hi"], [role |-> "user", content |-> "yo"],
      [role |-> "assistant", content |-> "hi"], [role |-> "system", content |-> "hi"] }

\* body.messages: the lists of at most MaxMessages messages
MapMessageLists == UNION { [1..n -> MapMessages] : n \in 0..MaxMessages }

MapRequests ==
    [ method : {"POST"}, path : {OPENAI_PATH_A}, auth : {H(BEARER \o GateKey)},
      goog : {Absent}, xapi : {Absent}, qkey : {Absent}, headers : {{}},
      query : {<<>>},
      body : [ present : {TRUE}, parseable : {TRUE}, model : MapModelNames,
               messages : MapMessageLists ] ]

MapInit ==
    /\ Init
    /\ prog = "multikey"
    /\ env = [AUTH_KEY |-> H(GateKey), GEMINI_API_KEYS |-> <<PoolKey1, PoolKey2>>]

MapNext ==
    \/ \E r \in MapRequests : ProxyReceive(r)
    \/ OpenAIJsonDone
    \/ \E outcome \in ProxyFetchOutcomes :
           \E answer \in OpenAIAnswers(outcome) : OpenAIFetchDone(outcome, answer)

MapSpec == MapInit /\ [][MapNext]_vars

----------------------------------------------------------------------------
(* Several requests in progress at once: the runtime invokes the handler   *)
(* for each request, and the invocations interleave at their awaits.       *)

NumSlots == 2

Slots == 1..NumSlots

ConcPrograms == {"main", "multikey"}

ConcEnvs ==
    { [AUTH_KEY |-> H(GateKey), GEMINI_API_KEYS |-> <<PoolKey1, PoolKey2>>],
      [AUTH_KEY |-> H(GateKey), GEMINI_API_KEYS |-> <<PoolKey1>>],
      [AUTH_KEY |-> H(GateKey), GEMINI_API_KEYS |-> <<>>] }

\* a plain request: POST, no header, no query, a JSON body without fields
PlainRequest ==
    [ method |-> "POST", path |-> <<"/">>, auth |-> Absent, goog |-> Absent,
      xapi |-> Absent, qkey |-> Absent, headers |-> {}, query |-> <<>>,
      body |-> [present |-> TRUE, parseable |-> TRUE, model |-> <<>>, messages |-> <<>>] ]

\* requests to main.ts: a streaming one and a unary one with different
\* credentials, and a unary one with neither credential nor JSON body
ConcSdkRequests ==
    { [PlainRequest EXCEPT
          !.path = <<"/">> \o MODELS_PREFIX \o <<"f", "o", "o", "-", "b", "a", "r">> \o STREAM_MARKER,
          !.goog = H(WrongKey)],
      [PlainRequest EXCEPT
          !.path = <<"/">> \o MODELS_PREFIX \o <<"m">> \o UNARY_MARKER,
          !.auth = H(BEARER \o GateKey)],
      [PlainRequest EXCEPT
          !.path = <<"/">> \o MODELS_PREFIX \o <<"m">> \o UNARY_MARKER,
          !.body = [present |-> TRUE, parseable |-> FALSE, model |-> <<>>, messages |-> <<>>]] }

\* requests to the multi-key handler: through the generic proxy with the
\* gate key and with a wrong key, and through the OpenAI-compatible route
ConcProxyRequests ==
    { [PlainRequest EXCEPT
          !.path = <<"/">> \o MODELS_PREFIX \o <<"m">> \o UNARY_MARKER,
          !.goog = H(GateKey)],
      [PlainRequest EXCEPT
          !.path = <<"/">> \o MODELS_PREFIX \o <<"m">> \o UNARY_MARKER,
          !.goog = H(WrongKey)],
      [PlainRequest EXCEPT
          !.path = OPENAI_PATH_A,
          !.auth = H(BEARER \o GateKey),
          !.body = [present |-> TRUE, parseable |-> TRUE, model |-> GPT4,
                    messages |-> << [role |-> "user", content |-> "hi"] >>]] }

ConcRequests(p) == IF p = "multikey" THEN ConcProxyRequests ELSE ConcSdkRequests

ConcChunks == { [text |-> "a"] }

\* an invocation of the handler that has not received its request yet
NewHandler ==
    [ pc |-> "idle", req |-> NoReq, calls |-> <<>>, resp |-> NoResp,
      streamResult |-> "pending", geminiStatus |-> 0, upstream |-> <<>>,
      ctrl |-> "none", enqueued |-> <<>> ]

ConcInit ==
    /\ prog \in ConcPrograms
    /\ env \in (IF prog = "multikey" THEN ConcEnvs ELSE {NoEnv})
    /\ pc = "idle"
    /\ req = NoReq
    /\ calls = <<>>
    /\ resp = NoResp
    /\ streamResult = "pending"
    /\ geminiStatus = 0
    /\ geminiData = NoAnswer
    /\ upstream = <<>>
    /\ ctrl = "none"
    /\ queue = <<>>
    /\ delivered = <<>>
    /\ enqueued = <<>>
    /\ handlers = [i \in Slots |-> NewHandler]

soloVars == <<pc, req, calls, resp, streamResult, geminiStatus, geminiData, upstream, ctrl,
              queue, delivered, enqueued>>

\* invocation i goes on to state h; nothing else changes
Continue(i, h) ==
    /\ handlers' = [handlers EXCEPT ![i] = h]
    /\ UNCHANGED <<prog, env, soloVars>>

\* the request of the slot that received one first
FirstRequest(i) ==
    handlers[Min({j \in Slots : handlers[j].pc # "idle"})].req

\* req as invocation i sees it after an await: the parameter of its own call
OwnRequest(i) == handlers[i].req

\* invocation i receives request r and runs to its first await or return
ConcReceive(i, r) ==
    /\ handlers[i].pc = "idle"
    /\ LET h == [handlers[i] EXCEPT !.req = r]
           early == IF prog = "multikey" THEN ProxyEarly(r, env) ELSE SdkEarly(prog, r)
       IN  IF early # NoResp
           THEN Continue(i, [h EXCEPT !.resp = early, !.pc = "done"])
           ELSE IF prog # "multikey"
           THEN Continue(i, [h EXCEPT !.pc = "json"])
           ELSE IF isOpenAIPath(r.path)
           THEN Continue(i, [h EXCEPT !.pc = "oai_json"])
           ELSE \E selectedApiKey \in getRandomApiKey(env) :
                    Continue(i, [h EXCEPT !.calls = <<ProxyCall(r, selectedApiKey)>>,
                                          !.pc = "proxy_fetch"])

\* invocation i of an SDK program resumes after await req.json()
ConcSdkJsonDone(i) ==
    /\ handlers[i].pc = "json"
    /\ LET h == handlers[i]
           r == OwnRequest(i)
           after == SdkAfterJson(prog, r)
           m == SdkModel(ModelOf(prog, r.path).group, r.body)
       IN  IF after # NoResp
           THEN Continue(i, [h EXCEPT !.resp = after, !.pc = "done"])
           ELSE IF isStreaming(r.path)
           THEN Continue(i, [h EXCEPT
                    !.calls = <<Call("generateContentStream", m, apiKey(r), r)>>,
                    !.pc = "stream_call"])
           ELSE Continue(i, [h EXCEPT
                    !.calls = <<Call("generateContent", m, apiKey(r), r)>>,
                    !.pc = "unary_call"])

\* invocation i on the OpenAI-compatible route resumes after await req.json()
ConcOpenAIJsonDone(i) ==
    /\ handlers[i].pc = "oai_json"
    /\ LET h == handlers[i]
           r == OwnRequest(i)
           after == OpenAIAfterJson(r, env)
       IN  IF after # NoResp
           THEN Continue(i, [h EXCEPT !.resp = after, !.pc = "done"])
           ELSE \E selectedGeminiKey \in getRandomApiKey(env) :
                    Continue(i, [h EXCEPT !.calls = <<OpenAICall(r, selectedGeminiKey)>>,
                                          !.pc = "oai_fetch"])

\* invocation i resumes after the awaited generateContentStream call
ConcStreamCallDone(i, outcome) ==
    /\ handlers[i].pc = "stream_call"
    /\ Continue(i, [handlers[i] EXCEPT
            !.streamResult = outcome,
            !.resp = StreamOutcomeResponse(prog, outcome),
            !.ctrl = StreamOutcomeCtrl(prog, outcome),
            !.pc = IF outcome = "stream" THEN "relay" ELSE "done"])

\* the stream of invocation i yields a chunk
ConcRelayChunk(i, chunk) ==
    /\ handlers[i].pc = "relay"
    /\ Len(handlers[i].upstream) < MaxChunks
    /\ Continue(i, [handlers[i] EXCEPT
            !.upstream = Append(@, chunk),
            !.enqueued = Append(@, sseFormattedChunk(chunk))])

\* the stream of invocation i ends
ConcRelayEnd(i) ==
    /\ handlers[i].pc = "relay"
    /\ Continue(i, [handlers[i] EXCEPT !.ctrl = "closed", !.pc = "done"])

\* the stream of invocation i fails
ConcRelayFail(i) ==
    /\ handlers[i].pc = "relay"
    /\ Continue(i, [handlers[i] EXCEPT !.ctrl = "errored", !.pc = "done"])

\* the answer the upstream gives with a status: a JSON document that is a
\* generateContent result
ConcAnswer(outcome) ==
    IF outcome = 0 THEN NoAnswer
    ELSE [JsonAnswer EXCEPT !.json =
            [parseable |-> TRUE,
             candidates |-> << [parts |-> << <<"o", "k">> >>, finishReason |-> "STOP"] >>]]

\* invocation i resumes after the awaited generateContent call or fetch
ConcCallDone(i, outcome) ==
    /\ handlers[i].pc \in {"unary_call", "proxy_fetch", "oai_fetch"}
    /\ Continue(i, [handlers[i] EXCEPT
            !.geminiStatus = outcome,
            !.resp = CASE handlers[i].pc = "unary_call" -> UnaryOutcomeResponse(prog, outcome)
                       [] handlers[i].pc = "proxy_fetch" ->
                            ProxyOutcomeResponse(handlers[i].req, outcome, ConcAnswer(outcome))
                       [] OTHER ->
                            OpenAIOutcomeResponse(handlers[i].req, outcome, ConcAnswer(outcome)),
            !.pc = "done"])

ConcNext ==
    \E i \in Slots :
        \/ \E r \in ConcRequests(prog) : ConcReceive(i, r)
        \/ ConcSdkJsonDone(i)
        \/ ConcOpenAIJsonDone(i)
        \/ \E outcome \in StreamOutcomes : ConcStreamCallDone(i, outcome)
        \/ \E chunk \in ConcChunks : ConcRelayChunk(i, chunk)
        \/ ConcRelayEnd(i)
        \/ ConcRelayFail(i)
        \/ \E outcome \in FetchOutcomes : ConcCallDone(i, outcome)

ConcSpec == ConcInit /\ [][ConcNext]_vars

----------------------------------------------------------------------------
(* Properties.                                                             *)

\* the request has been taken up by the handler
Handled == pc # "idle"

\* the handler has returned no success and made no upstream call, and its
\* answer is the JSON error envelope with this code and status name
AnsweredError(code, name) ==
    /\ pc = "done"
    /\ resp.status = code
    /\ resp.body.shape = "envelope"
    /\ resp.body.code = code
    /\ resp.body.status = name
    /\ calls = <<>>

\* the text 'data: ' + JSON(chunk) + two newlines
ExpectedFrame(chunk) ==
    <<"d", "a", "t", "a", ":", " ">> \o JSONstringify(chunk) \o <<"\n", "\n">>

ExpectedFrames(chunks) == [i \in 1..Len(chunks) |-> ExpectedFrame(chunks[i])]

\* while the client stream of main.ts is open or closed, the frames given to
\* it are the frames of the chunks received so far, one per chunk and in
\* their order, and the client has read a prefix of them
C1_FramesFollowChunks ==
    (prog = "main" /\ ctrl \in {"open", "closed"}) =>
        /\ enqueued = ExpectedFrames(upstream)
        /\ delivered \o queue = enqueued

\* once the client stream of main.ts is closed it stays closed and nothing
\* more is enqueued
C1_NothingAfterClose ==
    (prog = "main" /\ ctrl = "closed") => (ctrl' = "closed" /\ enqueued' = enqueued)

\* C1: in the SSE streaming path of main.ts an upstream sequence of N chunks
\* that ends without error gives the client exactly N frames, frame i being
\* 'data: ' + JSON(chunk i) + two newlines, in the order received, and the
\* stream is closed after the N-th frame with nothing enqueued after the close.
C1_StreamRelay == [] C1_FramesFollowChunks /\ [][C1_NothingAfterClose]_vars

\* two different chunks were relayed, the stream was closed and the client
\* has read every frame
C1_Witness ==
    /\ prog = "main"
    /\ ctrl = "closed"
    /\ Len(upstream) = 2
    /\ upstream[1] # upstream[2]
    /\ queue = <<>>
    /\ delivered = ExpectedFrames(upstream)

\* the path has the shape models/{x}:generateContent or
\* models/{x}:streamGenerateContent somewhere in it, x not empty
MatchesGenerationPath(path) ==
    \E i \in 1..Len(path), c \in 1..Len(path) :
        /\ StartsWithAt(path, <<"m", "o", "d", "e", "l", "s", "/">>, i)
        /\ c > i + 7
        /\ \/ StartsWithAt(path, STREAM_MARKER, c)
           \/ StartsWithAt(path, UNARY_MARKER, c)

\* the path contains one of the two operation markers
HasMarker(path) == Includes(path, STREAM_MARKER) \/ Includes(path, UNARY_MARKER)

\* C2 as stated: every POST to main.ts whose path does not match
\* models/{x}:generateContent or models/{x}:streamGenerateContent is answered
\* 404 "NOT_FOUND" without an upstream call.
C2_Original ==
    (prog = "main" /\ Handled /\ req.method = "POST" /\ ~MatchesGenerationPath(req.path))
        => AnsweredError(404, "NOT_FOUND")

\* C2 as amended: every POST to main.ts whose path contains neither
\* ":generateContent" nor ":streamGenerateContent" is answered 404
\* "NOT_FOUND" without an upstream call.
C2_NoMarkerNotFound ==
    (prog = "main" /\ Handled /\ req.method = "POST" /\ ~HasMarker(req.path))
        => AnsweredError(404, "NOT_FOUND")

\* a POST for another operation of a model was answered 404
C2_Witness ==
    /\ prog = "main"
    /\ req.method = "POST"
    /\ MatchesGenerationPath(req.path) = FALSE
    /\ Includes(req.path, <<"m", "o", "d", "e", "l", "s", "/", "m", ":">>)
    /\ ~HasMarker(req.path)
    /\ Truthy(req.goog)
    /\ req.body.parseable
    /\ AnsweredError(404, "NOT_FOUND")

\* C3 as stated: a POST to main.ts on a matching generation path with neither
\* an Authorization nor an x-goog-api-key header is answered 401
\* "UNAUTHENTICATED", whatever its body, and no upstream call is made.
C3_Original ==
    (/\ prog = "main"
     /\ Handled
     /\ req.method = "POST"
     /\ MatchesGenerationPath(req.path)
     /\ ~req.auth.present
     /\ ~req.goog.present)
        => /\ calls = <<>>
           /\ pc = "done" => AnsweredError(401, "UNAUTHENTICATED")

\* the paths <prefix>models/{m}<marker> whose prefix holds no "models/" of
\* its own, with their model segment m
ShapedAs(path, m) ==
    \E prefix \in PathPrefixes, marker \in Markers :
        /\ ~Includes(prefix, <<"m", "o", "d", "e", "l", "s", "/">>)
        /\ path = prefix \o <<"m", "o", "d", "e", "l", "s", "/">> \o m \o marker

\* C4 as stated: for a path <prefix>models/{m}:generateContent or
\* <prefix>models/{m}:streamGenerateContent the model main.ts passes to the
\* upstream call is exactly m.
C4_Original ==
    \A m \in ModelNames :
        (prog = "main" /\ ShapedAs(req.path, m) /\ calls # <<>>)
            => calls[1].model = m

HeaderNames(r) == {h[1] : h \in r.headers}

CorsHeaderNames ==
    { "Access-Control-Allow-Origin", "Access-Control-Allow-Methods",
      "Access-Control-Allow-Headers" }

\* C5 as stated: an OPTIONS request to any path, with any headers, credential
\* or body, is answered 204 with an empty body and exactly the three CORS
\* headers, before any other check and without an upstream call.
C5_Original ==
    (Handled /\ req.method = "OPTIONS") =>
        /\ pc = "done"
        /\ resp.status = 204
        /\ resp.body.shape = "empty"
        /\ HeaderNames(resp) = CorsHeaderNames
        /\ calls = <<>>

\* C5 as amended: an OPTIONS request to any path, with any headers, credential
\* or body, is answered 204 with an empty body and the three CORS headers,
\* before any other check and without an upstream call; the SDK handlers set
\* no other header, the multi-key handler adds Access-Control-Max-Age.
C5_Preflight ==
    (Handled /\ req.method = "OPTIONS") =>
        /\ pc = "done"
        /\ resp.status = 204
        /\ resp.body.shape = "empty"
        /\ HeaderNames(resp) =
              IF prog = "multikey"
              THEN CorsHeaderNames \cup {"Access-Control-Max-Age"}
              ELSE CorsHeaderNames
        /\ calls = <<>>

\* OPTIONS requests were answered 204: by main.ts on a path that is no
\* generation route, with a credential and an unparseable body
C5_Witness ==
    /\ prog = "main"
    /\ req.method = "OPTIONS"
    /\ ~HasMarker(req.path)
    /\ Truthy(req.goog)
    /\ ~req.body.parseable
    /\ pc = "done"
    /\ resp.status = 204

\* C6 as stated: on the streaming path, when the upstream call yields no
\* usable stream handle the request fails with a 502 "BAD_GATEWAY" JSON error
\* and neither an SSE frame nor a 200 event-stream response was sent.
C6_Original ==
    (prog \in {"main", "safe"} /\ streamResult = "nostream") =>
        /\ pc = "done"
        /\ resp.status = 502
        /\ resp.body.shape = "envelope"
        /\ resp.body.status = "BAD_GATEWAY"
        /\ enqueued = <<>>

\* the taxonomy name of an error code ("" when it has none)
TaxonomyName(code) ==
    CASE code = 404 -> "NOT_FOUND"
      [] code = 400 -> "INVALID_ARGUMENT"
      [] code = 401 -> "UNAUTHENTICATED"
      [] code = 502 -> "BAD_GATEWAY"
      [] code = 500 -> "INTERNAL"
      [] OTHER -> ""

\* C7 as stated: every error response of every handler (status >= 400) has a
\* JSON body {error: {code, message, status}} whose code is the HTTP status
\* and whose status is the taxonomy name of that code.
C7_Original ==
    resp.status >= 400 =>
        /\ resp.body.shape = "envelope"
        /\ resp.body.code = resp.status
        /\ resp.body.status = TaxonomyName(resp.status)

\* the bearer token the Authorization header supplies (<<>> when none)
BearerTokenOf(r) ==
    IF r.auth.present /\ StartsWith(r.auth.v, <<"B", "e", "a", "r", "e", "r", " ">>)
    THEN SubSeq(r.auth.v, 8, Len(r.auth.v))
    ELSE <<>>

\* the bearer token when the Authorization header supplies one, otherwise
\* the value of x-goog-api-key (<<>> when neither supplies a credential)
CredentialOf(r) ==
    IF BearerTokenOf(r) # <<>> THEN BearerTokenOf(r)
    ELSE IF r.goog.present THEN r.goog.v ELSE <<>>

AtProxyGate ==
    /\ prog = "multikey"
    /\ Handled
    /\ req.method # "OPTIONS"
    /\ ~isOpenAIPath(req.path)
    /\ ~notConfigured(env)

\* the proxy let the request through exactly when key is the gate value
GateDecidedOn(key) ==
    /\ calls # <<>> <=> isGateKey(key, env)
    /\ resp.status = 401 <=> ~isGateKey(key, env)

\* C9 as stated: the generic proxy resolves the inbound credential from the
\* bearer token of the Authorization header first, then x-goog-api-key, then
\* x-api-key, then the key query parameter, and compares the first one present
\* with the gate value (requests whose Authorization header, if any, carries a
\* bearer token).
C9_Original ==
    (AtProxyGate /\ (req.auth.present => BearerTokenOf(req) # <<>>)) =>
        GateDecidedOn(FirstNonEmpty(<<keyFromAuth(req), keyFromGoog(req),
                                      keyFromXApi(req), keyFromUrl(req)>>))

\* C9 as amended: the generic proxy resolves the inbound credential from
\* x-goog-api-key first, then the Authorization header (its bearer token, or
\* the whole header when it is not of the form "bearer <token>"), then
\* x-api-key, then the key query parameter, and compares the first non-empty
\* one with the gate value.
C9_GoogFirst ==
    AtProxyGate =>
        GateDecidedOn(FirstNonEmpty(<<keyFromGoog(req), keyFromAuth(req),
                                      keyFromXApi(req), keyFromUrl(req)>>))

\* x-goog-api-key held a wrong key and the Authorization header the gate key
\* as bearer token: the request was rejected
C9_Witness ==
    /\ AtProxyGate
    /\ req.goog = H(WrongKey)
    /\ BearerTokenOf(req) = GateKey
    /\ pc = "done"
    /\ resp.status = 401
    /\ calls = <<>>

\* the credential the multi-key handler extracts from the request
InboundKey(r) == IF isOpenAIPath(r.path) THEN openaiClientKey(r) ELSE clientKey(r)

\* every upstream call of the multi-key handler is for a request whose
\* credential is the gate value, and uses a key of the pool
OutboundOnlyBehindGate ==
    calls # <<>> =>
        /\ InboundKey(req) # <<>>
        /\ isGateKey(InboundKey(req), env)
        /\ \A i \in 1..Len(calls) :
              \E j \in 1..Len(env.GEMINI_API_KEYS) : calls[i].key = env.GEMINI_API_KEYS[j]

RejectionStatus(r, e) ==
    IF isOpenAIPath(r.path) /\ r.method # "POST" THEN 405
    ELSE IF ~isOpenAIPath(r.path) /\ notConfigured(e) THEN 500
    ELSE 401

OnlyCalls(api) == \A i \in 1..Len(calls) : calls[i].api = api

\* a response, once returned, is the response of the request
C11_OneResponse == resp # NoResp => resp' = resp

\* C11 as stated: main.ts classifies every non-OPTIONS request exactly one
\* way: a non-POST request or a POST without operation marker is answered 404
\* without an upstream call; a POST whose path contains
\* ":streamGenerateContent" leads to at most one streaming call and no unary
\* call; a POST whose path contains ":generateContent" leads to at most one
\* unary call and no streaming call.
C11_Original ==
    (prog = "main" /\ Handled /\ req.method # "OPTIONS") =>
        /\ (req.method # "POST" \/ ~HasMarker(req.path)) => AnsweredError(404, "NOT_FOUND")
        /\ (req.method = "POST" /\ Includes(req.path, STREAM_MARKER))
              => (Len(calls) <= 1 /\ OnlyCalls("generateContentStream"))
        /\ (req.method = "POST" /\ Includes(req.path, UNARY_MARKER))
              => (Len(calls) <= 1 /\ OnlyCalls("generateContent"))

\* the classification of main.ts, the streaming marker taking precedence
C11_Classes ==
    (prog = "main" /\ Handled /\ req.method # "OPTIONS") =>
        /\ (req.method # "POST" \/ ~HasMarker(req.path)) => AnsweredError(404, "NOT_FOUND")
        /\ (req.method = "POST" /\ Includes(req.path, STREAM_MARKER))
              => (Len(calls) <= 1 /\ OnlyCalls("generateContentStream"))
        /\ (/\ req.method = "POST"
            /\ Includes(req.path, UNARY_MARKER)
            /\ ~Includes(req.path, STREAM_MARKER))
              => (Len(calls) <= 1 /\ OnlyCalls("generateContent"))
        /\ pc = "done" => resp # NoResp

\* C11 as amended: main.ts classifies every non-OPTIONS request exactly one
\* way: a non-POST request or a POST without operation marker is answered 404
\* without an upstream call; a POST whose path contains
\* ":streamGenerateContent" leads to at most one streaming call and no unary
\* call, also when the path contains ":generateContent" as well; a POST whose
\* path contains ":generateContent" and not ":streamGenerateContent" leads to
\* at most one unary call and no streaming call; the handler returns one
\* response and never a second one.
C11_Classified == [] C11_Classes /\ [][C11_OneResponse]_vars

\* a POST whose path holds both markers was served by the streaming call
C11_Witness ==
    /\ prog = "main"
    /\ req.method = "POST"
    /\ Includes(req.path, UNARY_MARKER)
    /\ Includes(req.path, STREAM_MARKER)
    /\ Len(calls) = 1
    /\ calls[1].api = "generateContentStream"
    /\ pc = "done"
    /\ resp.status = 200

\* C12 as stated: a POST to main.ts whose path contains an operation marker
\* but not the shape models/{non-empty model} immediately followed by a marker
\* is answered 400 "INVALID_ARGUMENT" and makes no upstream call (requests
\* with a JSON body and an x-goog-api-key credential).
C12_Original ==
    (/\ prog = "main"
     /\ Handled
     /\ req.method = "POST"
     /\ req.body.parseable
     /\ Truthy(req.goog)
     /\ ~req.auth.present
     /\ HasMarker(req.path)
     /\ ~MatchesGenerationPath(req.path))
        => /\ calls = <<>>
           /\ pc = "done" => AnsweredError(400, "INVALID_ARGUMENT")

\* C13 as stated: a POST to a matching generation route of main.ts whose body
\* is not parseable JSON is answered 400 "INVALID_ARGUMENT", never with a 5xx
\* status, and causes no upstream call.
C13_Original ==
    (/\ prog = "main"
     /\ Handled
     /\ req.method = "POST"
     /\ MatchesGenerationPath(req.path)
     /\ ~req.body.parseable)
        => /\ calls = <<>>
           /\ resp.status < 500
           /\ pc = "done" => AnsweredError(400, "INVALID_ARGUMENT")

\* C14 as stated: when the call that starts the upstream stream throws, the
\* request is answered 502 "BAD_GATEWAY" and the upstream call is not
\* repeated (main.ts and the handler with a try/catch around the call).
C14_Original ==
    (prog \in {"main", "guarded"} /\ streamResult = "throw") =>
        /\ pc = "done"
        /\ resp.status = 502
        /\ resp.body.shape = "envelope"
        /\ resp.body.status = "BAD_GATEWAY"
        /\ Len(calls) = 1

\* C15 as stated: on the unary path one upstream request is issued with the
\* client's body; when the upstream succeeds the response is its payload as
\* JSON with status 200, and when it fails the response carries the
\* upstream's own HTTP status (main.ts and the handler with a try/catch
\* around the call).
C15_Original ==
    (/\ prog \in {"main", "guarded"}
     /\ pc = "done"
     /\ calls # <<>>
     /\ calls[1].api = "generateContent") =>
        /\ Len(calls) = 1
        /\ calls[1].body = req.body
        /\ isOk(geminiStatus) => (resp.status = 200 /\ resp.body.shape = "payload")
        /\ (geminiStatus # 0 /\ ~isOk(geminiStatus)) => resp.status = geminiStatus

\* the request went upstream through the generic proxy
ForwardedByProxy == prog = "multikey" /\ ~isOpenAIPath(req.path) /\ calls # <<>>

AllowList ==
    { "Content-Type", "Accept", "User-Agent", "Accept-Language", "Accept-Encoding",
      "x-goog-api-client" }

CredentialHeaderNames == { "Authorization", "x-goog-api-key", "x-api-key" }

\* C16: the headers the generic proxy gives to the outbound request are
\* headers of the allow-list only, each with the value it had on the inbound
\* request and only if present inbound; the inbound credential headers
\* (Authorization, x-goog-api-key, x-api-key) are never forwarded.
C16_AllowListOnly ==
    ForwardedByProxy =>
        \A i \in 1..Len(calls) :
            /\ \A h \in calls[i].headers : h[1] \in AllowList /\ h \in req.headers
            /\ {h[1] : h \in calls[i].headers} \cap CredentialHeaderNames = {}

\* a request with a Content-Type, a Cookie and two credential headers went
\* upstream with the Content-Type only
C16_Witness ==
    /\ ForwardedByProxy
    /\ req.auth.present
    /\ req.goog.present
    /\ <<"Cookie", <<"s">>>> \in req.headers
    /\ Len(calls) = 1
    /\ calls[1].headers = { <<"Content-Type", <<"j", "s", "o", "n">>>> }

\* the parameters of a query string other than key, and its key parameters
OtherParams(query) == SelectSeq(query, LAMBDA kv : kv[1] # "key")

KeyParams(query) == SelectSeq(query, LAMBDA kv : kv[1] = "key")

\* C17: the outbound request of the generic proxy has the method, path, body
\* bytes and non-credential query parameters of the inbound request, and its
\* query holds exactly one key parameter, whose value is the selected pool
\* credential; every key value of the client, the gate credential included,
\* is removed and does not appear in the outbound URL.
C17_SubstitutedKey ==
    ForwardedByProxy =>
        /\ Len(calls) = 1
        /\ calls[1].method = req.method
        /\ calls[1].path = req.path
        /\ calls[1].body = req.body
        /\ OtherParams(calls[1].query) = OtherParams(req.query)
        /\ KeyParams(calls[1].query) = << <<"key", calls[1].key>> >>
        /\ \E j \in 1..Len(env.GEMINI_API_KEYS) : calls[1].key = env.GEMINI_API_KEYS[j]
        /\ \A i \in 1..Len(calls[1].query), j \in 1..Len(req.query) :
              req.query[j][1] = "key" => calls[1].query[i][2] # req.query[j][2]

\* a POST with two key parameters, the gate credential among them, and an alt
\* parameter went upstream with alt and the second pool key only
C17_Witness ==
    /\ ForwardedByProxy
    /\ req.method = "POST"
    /\ req.body.present
    /\ Len(KeyParams(req.query)) = 2
    /\ calls[1].query = << <<"alt", <<"s", "s", "e">>>>, <<"key", PoolKey2>> >>

\* the upstream model the static table gives for an external model name,
\* gemini-pro for every name that is not in the table or is absent
TableModel(name) ==
    CASE name = <<"g", "p", "t", "-", "4">> -> GEMINI_15_PRO
      [] name = <<"g", "p", "t", "-", "3", ".", "5", "-", "t", "u", "r", "b", "o">> -> GEMINI_PRO
      [] name = GEMINI_15_PRO -> GEMINI_15_PRO
      [] name = GEMINI_15_FLASH -> GEMINI_15_FLASH
      [] OTHER -> GEMINI_PRO

\* entry i of the upstream list for a list of messages
UpstreamEntry(msg) ==
    [role |-> IF msg.role = "user" THEN "user" ELSE "model",
     parts |-> << [text |-> msg.content] >>]

\* C20 as stated: on the OpenAI-compatible route the external model name maps
\* to the upstream model of the static table and every unrecognised or absent
\* name to gemini-pro; a list of n messages maps to n upstream entries in the
\* same order, entry i being {role: "user" if role i is "user" else "model",
\* parts: [{text: content i}]}.
C20_Original ==
    (prog = "multikey" /\ isOpenAIPath(req.path) /\ calls # <<>>) =>
        /\ calls[1].model = TableModel(req.body.model)
        /\ Len(calls[1].body.contents) = Len(req.body.messages)
        /\ \A i \in 1..Len(req.body.messages) :
              calls[1].body.contents[i] = UpstreamEntry(req.body.messages[i])

\* invocation j, which has made no upstream call yet, makes its call with key k
SelectsKey(j, k) ==
    /\ handlers[j].calls = <<>>
    /\ \/ \E r \in ConcProxyRequests : ConcReceive(j, r)
       \/ ConcOpenAIJsonDone(j)
    /\ handlers'[j].calls # <<>>
    /\ handlers'[j].calls[1].key = k

\* invocation j is about to select a pool key, or to receive its request
AboutToSelect(j) ==
    \/ handlers[j].pc = "idle"
    \/ handlers[j].pc = "oai_json" /\ OpenAIAfterJson(handlers[j].req, env) = NoResp

\* no request has more than one upstream call, whatever the upstream answered
C18_AtMostOneCall == \A i \in Slots : Len(handlers[i].calls) <= 1

\* whatever the other requests got from the upstream, a request of the
\* multi-key handler can select every key of the pool
C18_EveryKeyStaysSelectable ==
    prog = "multikey" =>
        \A j \in Slots :
            AboutToSelect(j) =>
                \A n \in 1..Len(env.GEMINI_API_KEYS) :
                    ENABLED SelectsKey(j, env.GEMINI_API_KEYS[n])

\* a request that has been answered makes no further step
C18_NothingAfterAnswer ==
    \A i \in Slots : handlers[i].pc = "done" => handlers'[i] = handlers[i]

\* C18: each inbound request causes at most one outbound call to the upstream:
\* after an upstream failure or a 429 the proxy does not call again, with the
\* same or another pool key, and the outcome of a request, a 429 on a key
\* included, has no effect on the keys later requests can select.
C18_OneCallNoFeedback ==
    /\ [] (C18_AtMostOneCall /\ C18_EveryKeyStaysSelectable)
    /\ [][C18_NothingAfterAnswer]_vars

\* the generic proxy relayed a 429 for a request sent with the first pool
\* key without calling again, and the next request can select that key
C18_Witness ==
    /\ prog = "multikey"
    /\ Len(env.GEMINI_API_KEYS) = 2
    /\ handlers[1].pc = "done"
    /\ handlers[1].geminiStatus = 429
    /\ handlers[1].resp.status = 429
    /\ Len(handlers[1].calls) = 1
    /\ handlers[1].calls[1].key = PoolKey1
    /\ handlers[2].pc = "idle"
    /\ ENABLED SelectsKey(2, PoolKey1)

\* the response a handler gives to request r alone, given how its own
\* upstream call settled
ResponseAlone(p, e, r, stream, status) ==
    IF p = "multikey"
    THEN IF ProxyEarly(r, e) # NoResp THEN ProxyEarly(r, e)
         ELSE IF ~isOpenAIPath(r.path)
         THEN ProxyOutcomeResponse(r, status, ConcAnswer(status))
         ELSE IF OpenAIAfterJson(r, e) # NoResp THEN OpenAIAfterJson(r, e)
         ELSE OpenAIOutcomeResponse(r, status, ConcAnswer(status))
    ELSE IF SdkEarly(p, r) # NoResp THEN SdkEarly(p, r)
         ELSE IF SdkAfterJson(p, r) # NoResp THEN SdkAfterJson(p, r)
         ELSE IF isStreaming(r.path) THEN StreamOutcomeResponse(p, stream)
         ELSE UnaryOutcomeResponse(p, status)

\* the upstream calls a handler can make for request r alone
CallsAlone(p, e, r) ==
    IF p = "multikey"
    THEN {IF isOpenAIPath(r.path) THEN OpenAICall(r, e.GEMINI_API_KEYS[n])
          ELSE ProxyCall(r, e.GEMINI_API_KEYS[n]) : n \in 1..Len(e.GEMINI_API_KEYS)}
    ELSE {Call(IF isStreaming(r.path) THEN "generateContentStream" ELSE "generateContent",
               SdkModel(ModelOf(p, r.path).group, r.body), apiKey(r), r)}

\* the response, the frames and the upstream call of every request are those
\* of the request handled alone
C19_AsIfAlone ==
    \A i \in Slots :
        LET h == handlers[i]
        IN  /\ \A n \in 1..Len(h.calls) : h.calls[n] \in CallsAlone(prog, env, h.req)
            /\ h.pc = "done" =>
                  h.resp = ResponseAlone(prog, env, h.req, h.streamResult, h.geminiStatus)
            /\ h.enqueued = ExpectedFrames(h.upstream)

\* a step is a step of one request: it leaves the other requests and the
\* configuration as they are
C19_OneRequestPerStep ==
    /\ prog' = prog
    /\ env' = env
    /\ \E i \in Slots : \A j \in Slots \ {i} : handlers'[j] = handlers[j]

\* C19: for every interleaving of two or more requests handled concurrently,
\* each request's response (status, body, frames) and the credential and
\* model of its upstream call are determined by that request's own inputs and
\* its own upstream answers only, as if it were handled alone; no handler
\* writes state another request reads, and a failure of one request does not
\* change the outcome of another.
C19_Independent == [] C19_AsIfAlone /\ [][C19_OneRequestPerStep]_vars

\* the unary request of one client failed upstream and was answered 500, and
\* the streaming request of another client, in progress beside it, is being
\* relayed with its own credential
C19_Witness ==
    /\ prog = "main"
    /\ handlers[1].pc = "done"
    /\ handlers[1].geminiStatus = 500
    /\ handlers[1].resp.status = 500
    /\ handlers[1].calls[1].key = GateKey
    /\ handlers[2].pc = "relay"
    /\ handlers[2].calls[1].key = WrongKey
    /\ handlers[2].resp.status = 200
    /\ Len(handlers[2].enqueued) = 1

\* the OpenAI-compatible route has answered a request whose upstream call
\* was answered with a 2xx status
OpenAISuccess ==
    /\ prog = "multikey"
    /\ pc = "done"
    /\ isOpenAIPath(req.path)
    /\ Len(calls) = 1
    /\ isOk(geminiStatus)

\* the upstream's answer has a first candidate with a first part
HasFirstPart ==
    /\ geminiData.json.parseable
    /\ Len(geminiData.json.candidates) > 0
    /\ Len(geminiData.json.candidates[1].parts) > 0

\* the response is the completion envelope: one choice with index 0 and the
\* assistant role, prompt_tokens 0 and total_tokens the sum of the two counts
IsEnvelope ==
    /\ resp.status = 200
    /\ resp.body.shape = "chatCompletion"
    /\ resp.body.object = "chat.completion"
    /\ Len(resp.body.choices) = 1
    /\ resp.body.choices[1].index = 0
    /\ resp.body.choices[1].message.role = "assistant"
    /\ resp.body.usage.prompt_tokens = 0
    /\ resp.body.usage.total_tokens =
           resp.body.usage.prompt_tokens + resp.body.usage.completion_tokens

\* C21 as stated: on the OpenAI-compatible route, every successful upstream
\* answer yields a 200 response whose envelope has object 'chat.completion',
\* exactly one choice with index 0 and message role 'assistant', content equal
\* to the text of the first part of the upstream's first candidate,
\* finish_reason equal to that candidate's finish reason (defaulting to
\* 'stop'), model equal to the externally named model of the request, and
\* usage with prompt_tokens 0 and total_tokens = prompt_tokens +
\* completion_tokens (a successful answer taken as one whose body is JSON).
C21_Original ==
    (OpenAISuccess /\ geminiData.json.parseable) =>
        /\ IsEnvelope
        /\ HasFirstPart =>
               resp.body.choices[1].message.content = geminiData.json.candidates[1].parts[1]
        /\ req.body.model # <<>> => resp.body.model = req.body.model

\* C21: on the OpenAI-compatible route, every successful upstream answer
\* whose body is JSON yields the 200 envelope with object 'chat.completion',
\* one choice with index 0 and role 'assistant', and usage with prompt_tokens
\* 0 and total_tokens = prompt_tokens + completion_tokens; content is the text
\* of the first part of the first candidate when there is one and it is not
\* empty, and 'No response generated.' otherwise; finish_reason is that
\* candidate's finish reason, 'stop' when it has none; model is the model the
\* request names, 'gpt-3.5-turbo' when it names none. A successful answer
\* whose body is not JSON yields 500 'Internal error'.
C21_Envelope ==
    OpenAISuccess =>
        IF ~geminiData.json.parseable
        THEN /\ resp.status = 500
             /\ resp.body.shape = "errorString"
             /\ resp.body.message = "Internal error"
        ELSE /\ IsEnvelope
             /\ resp.body.choices[1].message.content =
                    (IF HasFirstPart /\ geminiData.json.candidates[1].parts[1] # <<>>
                     THEN geminiData.json.candidates[1].parts[1]
                     ELSE NO_RESPONSE)
             /\ resp.body.choices[1].finish_reason =
                    (IF Len(geminiData.json.candidates) > 0
                        /\ geminiData.json.candidates[1].finishReason # ""
                     THEN geminiData.json.candidates[1].finishReason
                     ELSE "stop")
             /\ resp.body.model =
                    (IF req.body.model # <<>> THEN req.body.model ELSE GPT35)
             /\ resp.body.usage.completion_tokens =
                    Len(resp.body.choices[1].message.content)

\* an answer with two candidates, the first of two parts and without a finish
\* reason, to a request for gpt-4, has been wrapped: the content is the first
\* part, the finish reason 'stop', the model the one the client named
C21_Witness ==
    /\ OpenAISuccess
    /\ Len(geminiData.json.candidates) = 2
    /\ Len(geminiData.json.candidates[1].parts) = 2
    /\ req.body.model = GPT4
    /\ calls[1].model = GEMINI_15_PRO
    /\ IsEnvelope
    /\ resp.body.choices[1].message.content = <<"a">>
    /\ resp.body.choices[1].finish_reason = "stop"
    /\ resp.body.model = GPT4
    /\ resp.body.usage.total_tokens = 1

\* the keys of the pool as configured at startup
Pool == {env.GEMINI_API_KEYS[n] : n \in 1..Len(env.GEMINI_API_KEYS)}

\* the key of every outbound call is a key of the pool
C22_KeyFromPool ==
    \A i \in Slots : \A n \in 1..Len(handlers[i].calls) : handlers[i].calls[n].key \in Pool

\* whatever the other requests selected, a request that is about to select a
\* key can get every key of the pool
C22_EveryKeySelectable ==
    \A j \in Slots : AboutToSelect(j) => \A k \in Pool : ENABLED SelectsKey(j, k)

\* with an empty pool no request makes an outbound call, and every request
\* is answered with an error: 500 when it passes the checks that come before
\* the selection
C22_EmptyPoolNoCall ==
    Pool = {} =>
        \A i \in Slots :
            /\ handlers[i].calls = <<>>
            /\ handlers[i].pc = "done" =>
                   /\ handlers[i].resp.status \in {401, 500}
                   /\ (isGateKey(handlers[i].req.goog.v, env)
                         \/ isOpenAIPath(handlers[i].req.path)) =>
                          handlers[i].resp.status = 500

\* C22: in the multi-key variant, with a configured pool of K >= 1 keys, the
\* key used for every outbound call is an element of the pool as configured
\* at startup, the choice is made anew for each request, and every one of the
\* K keys can be the one selected for a request (none is unreachable); with
\* an empty pool key selection fails and no outbound call is made.
C22_PoolSelection ==
    prog = "multikey" =>
        /\ C22_KeyFromPool
        /\ C22_EveryKeySelectable
        /\ C22_EmptyPoolNoCall

\* two requests alike in everything were given different keys of a pool of
\* two, the second of them the second key
C22_Witness ==
    /\ prog = "multikey"
    /\ Len(env.GEMINI_API_KEYS) = 2
    /\ handlers[1].req = handlers[2].req
    /\ Len(handlers[1].calls) = 1
    /\ Len(handlers[2].calls) = 1
    /\ handlers[1].calls[1].key = PoolKey1
    /\ handlers[2].calls[1].key = PoolKey2

\* a request to the generic proxy with the gate key, and a pool without keys:
\* the answer is 500 and nothing went out
C22_EmptyPoolWitness ==
    /\ prog = "multikey"
    /\ Len(env.GEMINI_API_KEYS) = 0
    /\ handlers[1].pc = "done"
    /\ handlers[1].req.goog = H(GateKey)
    /\ handlers[1].resp.status = 500
    /\ handlers[1].calls = <<>>

\* the generic proxy has answered a request for which fetch resolved with an
\* upstream response
RelayedByProxy ==
    /\ prog = "multikey"
    /\ pc = "done"
    /\ ~isOpenAIPath(req.path)
    /\ Len(calls) = 1
    /\ geminiStatus # 0

\* the response has the upstream's status and the upstream's body bytes
\* unchanged and in order, and of the upstream's headers only those named
\* Content-Type, Content-Length, Content-Encoding and Transfer-Encoding
PassedThrough ==
    /\ resp.status = geminiStatus
    /\ resp.body.shape = "bytes"
    /\ resp.body.bytes = geminiData.bytes
    /\ \A h \in resp.headers :
           \/ h[1] \in {"Access-Control-Allow-Origin", "X-Request-ID", "X-API-Key-Used"}
           \/ /\ h[1] \in {"Content-Type", "Content-Length", "Content-Encoding",
                           "Transfer-Encoding"}
              /\ h \in geminiData.headers

\* C23 as stated: in the generic proxy, whenever an upstream response is
\* obtained, the response returned to the client has exactly the upstream's
\* HTTP status (success or error, on both the streamed and the buffered path)
\* and the upstream's body bytes unchanged and in order, with no SSE
\* re-framing; the only headers copied from upstream are Content-Type,
\* Content-Length, Content-Encoding and Transfer-Encoding (here for the
\* upstream responses whose body arrives whole).
C23_Original == (RelayedByProxy /\ geminiData.complete) => PassedThrough

\* the upstream's answer is passed through whenever it is streamed, and, on
\* the buffered path, whenever its body arrives whole and its status is one a
\* response may have a body with
C23_RelayedWhenBodied ==
    (RelayedByProxy
       /\ (isStreamedRelay(req, geminiData)
             \/ (geminiData.complete /\ ~nullBodyStatus(geminiStatus))))
        => PassedThrough

\* an upstream error with a JSON body was passed through with its status
C23_RelayedWitness ==
    /\ RelayedByProxy
    /\ geminiStatus = 429
    /\ resp.status = 429
    /\ resp.body.bytes = <<"{", "}">>
    /\ <<"Content-Type", APPLICATION_JSON>> \in resp.headers
    /\ <<"Server", <<"s">>>> \in geminiData.headers

\* the frames taken from the upstream and not yet delivered to the client
Undelivered == Len(enqueued) - Len(delivered)

\* C24 as stated: the streaming relay forwards each chunk to the client
\* before requesting the next chunk from the upstream and holds no internal
\* buffer: at every moment at most one frame has been taken from the upstream
\* and not yet delivered to the client, even when the client reads more
\* slowly than the upstream produces.
C24_Original == (prog = "main" /\ ctrl = "open") => Undelivered <= 1

\* every chunk taken from the upstream has been handed to the response
\* stream before the next one is taken: the frames enqueued are those of the
\* chunks received so far
C24_EnqueuedBeforeNext == prog = "main" => enqueued = ExpectedFrames(upstream)

\* a request on the OpenAI-compatible route has been taken up
OnOpenAIRoute == prog = "multikey" /\ Handled /\ isOpenAIPath(req.path)

\* the request was rejected at once with this status, before any upstream call
RejectedWith(status) == pc = "done" /\ resp.status = status /\ calls = <<>>

\* the request made no upstream call and, once answered, has this status
EndsWith(status) == calls = <<>> /\ (pc = "done" => resp.status = status)

\* an upstream call is made only for a POST with the gate credential, a JSON
\* body and a message, and there is at most one, with a key of the pool
OnlyAfterAllChecks ==
    /\ Len(calls) <= 1
    /\ calls # <<>> =>
          /\ req.method = "POST"
          /\ isGateKey(InboundKey(req), env)
          /\ req.body.parseable
          /\ Len(req.body.messages) > 0
          /\ \E n \in 1..Len(env.GEMINI_API_KEYS) : calls[1].key = env.GEMINI_API_KEYS[n]

\* C25 as stated: on the OpenAI-compatible route the checks run in a fixed
\* order and each rejection happens before any upstream call: a non-POST
\* request yields 405; otherwise a missing or non-matching gate credential
\* yields 401 before the body is read (so an unauthenticated request with a
\* malformed body gets 401, not 500); otherwise an absent or empty messages
\* list yields 400; only a request that passes all three reaches key selection
\* and the single upstream call.
C25_Original ==
    OnOpenAIRoute =>
        /\ OnlyAfterAllChecks
        /\ IF req.method # "POST" THEN RejectedWith(405)
           ELSE IF ~isGateKey(InboundKey(req), env) THEN RejectedWith(401)
           ELSE IF req.body.parseable /\ Len(req.body.messages) = 0 THEN EndsWith(400)
           ELSE TRUE

\* C25: on the OpenAI-compatible route the checks run in a fixed order and
\* each rejection happens before any upstream call: an OPTIONS request is
\* answered 204 as a preflight; any other non-POST request yields 405;
\* otherwise a missing or non-matching gate credential yields 401 before the
\* body is read (an unauthenticated request with a malformed body gets 401,
\* not 500); otherwise a body that is not JSON yields 500; otherwise an absent
\* or empty messages list yields 400; otherwise an empty pool yields 500; only
\* a request that passes all of these reaches the single upstream call.
C25_CheckOrder ==
    OnOpenAIRoute =>
        /\ OnlyAfterAllChecks
        /\ IF req.method = "OPTIONS" THEN RejectedWith(204)
           ELSE IF req.method # "POST" THEN RejectedWith(405)
           ELSE IF ~isGateKey(InboundKey(req), env) THEN RejectedWith(401)
           ELSE IF ~req.body.parseable THEN EndsWith(500)
           ELSE IF Len(req.body.messages) = 0 THEN EndsWith(400)
           ELSE IF Len(env.GEMINI_API_KEYS) = 0 THEN EndsWith(500)
           ELSE pc # "oai_json" => Len(calls) = 1

\* a POST without credential and with a body that is not JSON was answered
\* 401, and nothing went upstream
C25_Witness ==
    /\ OnOpenAIRoute
    /\ req.method = "POST"
    /\ InboundKey(req) = <<>>
    /\ req.body.present
    /\ ~req.body.parseable
    /\ RejectedWith(401)

\* the upstream sequence of main.ts failed after some chunks were relayed
FailedMidStream ==
    /\ prog = "main"
    /\ streamResult = "stream"
    /\ ctrl = "errored"

\* seq is the beginning of full
IsPrefix(seq, full) == Len(seq) <= Len(full) /\ seq = SubSeq(full, 1, Len(seq))

\* C26 as stated: in main.ts, if the upstream sequence fails after k chunks
\* were produced, the frames delivered to the client are exactly the frames of
\* those first k chunks in order, the client stream then ends in the errored
\* state rather than being closed normally, no frame is enqueued after the
\* error, and no JSON error envelope is sent because the 200 response was
\* already returned.
C26_Original ==
    FailedMidStream =>
        /\ delivered = ExpectedFrames(upstream)
        /\ pc = "done"
        /\ resp.status = 200
        /\ resp.body.shape = "sse"

\* after the failure the frames delivered are the frames of some of the
\* first chunks, in order, the response is the 200 stream already returned,
\* and nothing is waiting in the stream any more
C26_PrefixDelivered ==
    FailedMidStream =>
        /\ IsPrefix(delivered, ExpectedFrames(upstream))
        /\ queue = <<>>
        /\ pc = "done"
        /\ resp.status = 200
        /\ resp.body.shape = "sse"

\* once the stream is errored nothing is enqueued, nothing is delivered and
\* the stream is not closed
C26_NothingAfterError ==
    ctrl = "errored" =>
        /\ enqueued' = enqueued
        /\ delivered' = delivered
        /\ ctrl' = "errored"

\* the parts of C26 that hold
C26_Holds == [] C26_PrefixDelivered /\ [][C26_NothingAfterError]_vars

====
